---------------------------- MODULE Spec2Model ----------------------------
(***************************************************************************)
(* Model of the authentication-and-session core of bancarios.tech:         *)
(* the session manager (models/session.js), the user directory             *)
(* (models/user.js), the authentication service                            *)
(* (models/authentication.js), the credential hasher (models/password.js), *)
(* the migration runner (models/migrator.js), the error taxonomy           *)
(* (infra/errors.js) and the data-access layer (infra/database.js).        *)
(*                                                                         *)
(* Time is counted in seconds (the source counts milliseconds; TLC's       *)
(* integers are 32 bits wide and 30 days of milliseconds do not fit).      *)
(* The application clock (Date.now()) and the database clock (NOW()) are   *)
(* one clock, `now`, which only moves forward.                             *)
(***************************************************************************)
EXTENDS Integers, Sequences, FiniteSets, TLC

VARIABLES
  now,          \* the clock, in seconds since the start of the run
  ticks,        \* how many times the clock has advanced
  sessions,     \* the sessions table: a sequence of rows, row i has id i
  sret,         \* the last session operation: its name, input, outcome
  expired,      \* history: the ids of the sessions expireById has hit
  expires,      \* history: how many expireById calls have hit a session
  issued,       \* history: the (id, token) pairs session.create returned
  users,        \* the users table: a sequence of rows, row i has id i
  calls,        \* per caller, the user-directory call it is in, or its outcome
  uret,         \* the call the last step of the user directory ended, if any
  created,      \* history: what each successful user.create was given
  supplied,     \* history: per user id, the password supplied for it last
  db,           \* whether the storage can be reached: "up" or "down"
  aret,         \* the authentication call the last step ended, if any
  open,         \* the connections getNewClient has opened that are not ended
  opened,       \* history: how many connections database.query has opened
  qcalls,       \* per caller, the database.query call it is in
  qret,         \* the database.query call the last step ended, if any
  ledger,       \* the pgmigrations table: the migrations recorded, in order
  schema,       \* the migrations whose changes the schema has
  mcall,        \* the migrator call that is running, if any
  mlast,        \* the migrator call that ended last: its name and success
  mret,         \* the migrator call the last step ended, if any
  eret,         \* the error constructed last: its kind, parameters, rendering
  pret          \* the last call of the password module: its input and result

svars == <<now, ticks, sessions, sret, expired, expires, issued>>

uvars == <<users, calls, uret, created, supplied>>

\* the storage's reach and the authentication service's variable
xvars == <<db, aret>>

qvars == <<open, opened, qcalls, qret>>

mvars == <<ledger, schema, mcall, mlast, mret>>

\* the modules without state: infra/errors.js and models/password.js
lvars == <<eret, pret>>

vars == <<svars, uvars, xvars, qvars, mvars, lvars>>

----------------------------------------------------------------------------
(* Bounds of the model *)

MaxSessions == 2
MaxTicks == 1
MaxExpires == 1
MaxCoreSessions == 1
MaxQueries == 3
MaxMigrations == 3

SessionIds == 1..MaxSessions

\* Tokens and user ids are opaque values that are only compared for equality,
\* so they are numbered in order of first use: token MaxSessions + 1 is never
\* issued.
Tokens == 1..(MaxSessions + 1)

\* the user ids a caller may pass to session.create: the owner of a stored
\* session, or a user who has no session yet
UserIds(rows) ==
  {rows[i].user_id : i \in DOMAIN rows} \cup
  {1 + Cardinality({rows[i].user_id : i \in DOMAIN rows})}

\* crypto.randomBytes(48).toString("hex"): a value not seen before (the least
\* unused number stands for all of them) or, by chance, one already stored
randomBytes(rows) ==
  {rows[i].token : i \in DOMAIN rows} \cup {Len(rows) + 1}

\* the 48 bytes the token numbered `token` stands for
TokenBytes(token) == [i \in 1..48 |-> IF i = 48 THEN token % 256 ELSE 0]

HexDigits ==
  <<"0", "1", "2", "3", "4", "5", "6", "7", "8", "9", "a", "b", "c", "d",
    "e", "f">>

\* buffer.toString("hex"): two hexadecimal digits for each byte
toString_hex(bytes) ==
  [i \in 1..(2 * Len(bytes)) |->
     LET byte == bytes[(i + 1) \div 2]
     IN IF i % 2 = 1 THEN HexDigits[(byte \div 16) + 1]
        ELSE HexDigits[(byte % 16) + 1]]

----------------------------------------------------------------------------
(* Program constants *)

\* session.js:189, 60 * 60 * 24 * 30 * 1000 ms, here in seconds
EXPIRATION_IN_SECONDS == 2592000

\* session.js:369, interval '1 year': PostgreSQL subtracts a calendar year,
\* which is 365 or 366 days long depending on the date
YearLengths == {31536000, 31622400}

\* the clock advances by one second or by the whole validity window
TickSteps == {1, EXPIRATION_IN_SECONDS}

NoValue == [none |-> TRUE]

----------------------------------------------------------------------------
(* Error taxonomy: infra/errors.js *)

HasText(p, k) == k \in DOMAIN p /\ p[k] # ""

ServiceError(p) ==
  [name |-> "ServiceError",
   message |-> IF HasText(p, "message") THEN p.message
               ELSE "Serviço indisponível no momento.",
   action |-> "Verifique se o serviço está disponível.",
   statusCode |-> 503,
   cause |-> IF "cause" \in DOMAIN p THEN p.cause ELSE "none"]

ValidationError(p) ==
  [name |-> "ValidationError",
   message |-> IF HasText(p, "message") THEN p.message
               ELSE "Um erro de validação ocorreu.",
   action |-> IF HasText(p, "action") THEN p.action
              ELSE "Ajuste os dados enviados e tente novamente.",
   statusCode |-> 400,
   cause |-> IF "cause" \in DOMAIN p THEN p.cause ELSE "none"]

NotFoundError(p) ==
  [name |-> "NotFoundError",
   message |-> IF HasText(p, "message") THEN p.message
               ELSE "Não foi possível encontrar este recurso no sistema.",
   action |-> IF HasText(p, "action") THEN p.action
              ELSE "Verifique se os parâmetros enviados na consulta estão certos.",
   statusCode |-> 404,
   cause |-> IF "cause" \in DOMAIN p THEN p.cause ELSE "none"]

UnauthorizedError(p) ==
  [name |-> "UnauthorizedError",
   message |-> IF HasText(p, "message") THEN p.message
               ELSE "Usuário não autenticado.",
   action |-> IF HasText(p, "action") THEN p.action
              ELSE "Faça novamente o login para continuar.",
   statusCode |-> 401,
   cause |-> IF "cause" \in DOMAIN p THEN p.cause ELSE "none"]

InternalServerError(p) ==
  [name |-> "InternalServerError",
   message |-> "Um erro interno não esperado aconteceu.",
   action |-> "Entre em contato com o suporte.",
   statusCode |-> IF "statusCode" \in DOMAIN p /\ p.statusCode # 0
                  THEN p.statusCode ELSE 500,
   cause |-> IF "cause" \in DOMAIN p THEN p.cause ELSE "none"]

\* the constructor takes no parameter and gives super() no cause
MethodNotAllowedError(p) ==
  [name |-> "MethodNotAllowedError",
   message |-> "Método não permitido para este endpoint.",
   action |-> "Verifique se o método HTTP enviado é válido para este endpoint.",
   statusCode |-> 405,
   cause |-> "none"]

\* a toJSON that renders the cause with the four fields
toJSON_withCause(e) ==
  [name |-> e.name, message |-> e.message, action |-> e.action,
   status_code |-> e.statusCode, cause |-> e.cause]

\* what the caller can observe of an error: toJSON plus the kind
Public(e) ==
  [name |-> e.name, message |-> e.message, action |-> e.action,
   status_code |-> e.statusCode]

----------------------------------------------------------------------------
(* Data-access layer: database.query *)

\* an error of the driver as the caller sees it when nothing has wrapped it
DriverError(thrown) ==
  [name |-> "Error", message |-> thrown, action |-> "",
   statusCode |-> 500, cause |-> "none"]

\* a catch block that rethrows what it caught
queryCatch_rethrow(driverError) == DriverError(driverError)

\* database.query's catch block: every driver failure leaves as a ServiceError
queryCatch(driverError) ==
  ServiceError([message |-> "Erro na conexão com Banco ou na Query.",
                cause |-> driverError])

----------------------------------------------------------------------------
(* Sessions table *)

\* a sessions table with no constraint on token
SessionsTokenUnique_none(rows, token) == TRUE

\* the sessions table's unique constraint on token
SessionsTokenUnique(rows, token) ==
  \A i \in DOMAIN rows : rows[i].token # token

\* the row an INSERT INTO sessions (token, user_id, expires_at) produces:
\* id, created_at and updated_at are the table's defaults
SessionsNewRow(rows, token, userId, expiresAt, t) ==
  [id |-> Len(rows) + 1, token |-> token, user_id |-> userId,
   expires_at |-> expiresAt, created_at |-> t, updated_at |-> t]

----------------------------------------------------------------------------
(* Session manager: models/session.js *)

\* session.js:226 with >= in place of >
findOneValidByToken_where_orEqual(row, sessionToken, t) ==
  row.token = sessionToken /\ row.expires_at >= t

\* session.js:226 without the condition on expires_at
findOneValidByToken_where_anytime(row, sessionToken, t) ==
  row.token = sessionToken

\* WHERE token = $1 AND expires_at > NOW()
findOneValidByToken_where(row, sessionToken, t) ==
  row.token = sessionToken /\ row.expires_at > t

\* a lookup that tells a token it has stored from one it has never seen
findOneValidByToken_error_leaking(rows, sessionToken) ==
  UnauthorizedError(
    [message |-> IF \E i \in DOMAIN rows : rows[i].token = sessionToken
                 THEN "Sessão expirada."
                 ELSE "Usuário não possui sessão ativa.",
     action |-> "Verifique se este usuário está logado e tente novamente."])

\* the error findOneValidByToken.runSelectQuery throws when rowCount is 0
findOneValidByToken_error(rows, sessionToken) ==
  UnauthorizedError(
    [message |-> "Usuário não possui sessão ativa.",
     action |-> "Verifique se este usuário está logado e tente novamente."])

Ok(val) == [ok |-> TRUE, val |-> val, err |-> NoValue]
Fail(err) == [ok |-> FALSE, val |-> NoValue, err |-> err]

\* findOneValidByToken(sessionToken): the outcomes the call can have on table
\* `rows` at clock t (LIMIT 1 returns any one of the matching rows)
findOneValidByToken(rows, sessionToken, t) ==
  LET found == {i \in DOMAIN rows :
                  findOneValidByToken_where(rows[i], sessionToken, t)}
  IN IF found = {}
     THEN {Fail(findOneValidByToken_error(rows, sessionToken))}
     ELSE {Ok(rows[i]) : i \in found}

\* session.js:259 with a validity window of one day
create_expiresAt_day(t) == t + 86400

\* new Date(Date.now() + EXPIRATION_IN_MILLISECONDS)
create_expiresAt(t) == t + EXPIRATION_IN_SECONDS

\* session.js:303 without the validity window
renew_expiresAt_now(t) == t

\* session.js:303 with twice the validity window
renew_expiresAt_twice(t) == t + 2 * EXPIRATION_IN_SECONDS

\* new Date(Date.now() + EXPIRATION_IN_MILLISECONDS)
renew_expiresAt(t) == t + EXPIRATION_IN_SECONDS

\* session.js:323 without the WHERE clause
renew_update_all(rows, sessionId, expiresAt, t) ==
  [i \in DOMAIN rows |->
     [rows[i] EXCEPT !.expires_at = expiresAt, !.updated_at = t]]

\* a renew whose window is fixed at creation: it never moves expires_at past
\* the creation plus the validity window
renew_update_fixed(rows, sessionId, expiresAt, t) ==
  [i \in DOMAIN rows |->
     IF rows[i].id = sessionId
     THEN [rows[i] EXCEPT
             !.expires_at = rows[i].created_at + EXPIRATION_IN_SECONDS,
             !.updated_at = t]
     ELSE rows[i]]

\* renew.runUpdateQuery: SET expires_at = $2, updated_at = NOW() WHERE id = $1
renew_update(rows, sessionId, expiresAt, t) ==
  [i \in DOMAIN rows |->
     IF rows[i].id = sessionId
     THEN [rows[i] EXCEPT !.expires_at = expiresAt, !.updated_at = t]
     ELSE rows[i]]

\* session.js:369 taking the validity window off instead of a year
expireById_update_window(rows, sessionId, year, t) ==
  [i \in DOMAIN rows |->
     IF rows[i].id = sessionId
     THEN [rows[i] EXCEPT
             !.expires_at = rows[i].expires_at - EXPIRATION_IN_SECONDS,
             !.updated_at = t]
     ELSE rows[i]]

\* session.js:371 without the WHERE clause
expireById_update_all(rows, sessionId, year, t) ==
  [i \in DOMAIN rows |->
     [rows[i] EXCEPT !.expires_at = rows[i].expires_at - year,
                     !.updated_at = t]]

\* session.js:364 as a DELETE FROM sessions WHERE id = $1
expireById_update_delete(rows, sessionId, year, t) ==
  SelectSeq(rows, LAMBDA row : row.id # sessionId)

\* expireById.runUpdateQuery:
\* SET expires_at = expires_at - interval '1 year', updated_at = NOW() WHERE id = $1
expireById_update(rows, sessionId, year, t) ==
  [i \in DOMAIN rows |->
     IF rows[i].id = sessionId
     THEN [rows[i] EXCEPT !.expires_at = rows[i].expires_at - year,
                          !.updated_at = t]
     ELSE rows[i]]

\* RETURNING * ... results.rows[0]: the updated row, or undefined
FirstRow(rows, sessionId) ==
  IF \E i \in DOMAIN rows : rows[i].id = sessionId
  THEN rows[CHOOSE i \in DOMAIN rows : rows[i].id = sessionId]
  ELSE NoValue

SRet(op, arg, ok, val, err) ==
  [op |-> op, arg |-> arg, ok |-> ok, val |-> val, err |-> err]

\* how a failed lookup's token stands: never issued, expired by expireById,
\* or expired by the clock
TokenCase(token) ==
  IF \A i \in DOMAIN sessions : sessions[i].token # token THEN "never"
  ELSE IF \E i \in DOMAIN sessions :
            sessions[i].token = token /\ i \in expired THEN "expireById"
  ELSE "clock"

SessionInit ==
  /\ now = 0
  /\ ticks = 0
  /\ sessions = <<>>
  /\ sret = SRet("none", NoValue, TRUE, NoValue, NoValue)
  /\ expired = {}
  /\ expires = 0
  /\ issued = {}

\* a session operation's query cannot reach the storage
SessionUnreachable(op, arg) ==
  /\ sret' = SRet(op, arg, FALSE, NoValue, queryCatch("connection_refused"))
  /\ UNCHANGED <<now, ticks, sessions, expired, expires, issued>>

\* session.create(userId)
SessionCreate ==
  \E userId \in UserIds(sessions), token \in randomBytes(sessions) :
    /\ Len(sessions) < MaxSessions
    /\ LET expiresAt == create_expiresAt(now)
           row == SessionsNewRow(sessions, token, userId, expiresAt, now)
       IN IF db = "down" THEN SessionUnreachable("create", userId)
          ELSE /\ IF SessionsTokenUnique(sessions, token)
                  THEN /\ sessions' = Append(sessions, row)
                       /\ issued' = issued \cup
                                      {[id |-> row.id, token |-> row.token]}
                       /\ sret' = SRet("create", userId, TRUE, row, NoValue)
                  ELSE /\ sret' = SRet("create", userId, FALSE, NoValue,
                                       queryCatch("unique_violation"))
                       /\ UNCHANGED <<sessions, issued>>
               /\ UNCHANGED <<now, ticks, expired, expires>>

\* session.findOneValidByToken(sessionToken)
SessionFind ==
  \E sessionToken \in Tokens :
    IF db = "down" THEN SessionUnreachable("findOneValidByToken", sessionToken)
    ELSE /\ \E o \in findOneValidByToken(sessions, sessionToken, now) :
              sret' = SRet("findOneValidByToken", sessionToken, o.ok, o.val,
                           o.err)
         /\ UNCHANGED <<now, ticks, sessions, expired, expires, issued>>

\* session.renew(sessionId)
SessionRenew ==
  \E sessionId \in SessionIds :
    LET rows == renew_update(sessions, sessionId, renew_expiresAt(now), now)
    IN IF db = "down" THEN SessionUnreachable("renew", sessionId)
       ELSE /\ sessions' = rows
            /\ sret' = SRet("renew", sessionId, TRUE,
                            FirstRow(rows, sessionId), NoValue)
            /\ UNCHANGED <<now, ticks, expired, expires, issued>>

\* session.expireById(sessionId)
SessionExpire ==
  \E sessionId \in SessionIds, year \in YearLengths :
    /\ sessionId \in DOMAIN sessions => expires < MaxExpires
    /\ LET rows == expireById_update(sessions, sessionId, year, now)
       IN IF db = "down" THEN SessionUnreachable("expireById", sessionId)
          ELSE /\ sessions' = rows
               /\ sret' = SRet("expireById", sessionId, TRUE,
                               FirstRow(rows, sessionId), NoValue)
               /\ expired' = expired \cup ({sessionId} \cap DOMAIN sessions)
               /\ expires' = IF sessionId \in DOMAIN sessions
                             THEN expires + 1 ELSE expires
               /\ UNCHANGED <<now, ticks, issued>>

\* time passes
Tick ==
  \E d \in TickSteps :
    /\ ticks < MaxTicks
    /\ now' = now + d
    /\ ticks' = ticks + 1
    /\ sret' = SRet("none", NoValue, TRUE, NoValue, NoValue)
    /\ UNCHANGED <<sessions, expired, expires, issued>>

----------------------------------------------------------------------------
(* Strings: a string is a sequence of one-character strings *)

UpperToLower ==
  [A |-> "a", B |-> "b", C |-> "c", D |-> "d", X |-> "x", Y |-> "y", Z |-> "z"]

\* SQL LOWER() on one character
LowerChar(c) == IF c \in DOMAIN UpperToLower THEN UpperToLower[c] ELSE c

\* SQL LOWER()
LOWER(str) == [i \in DOMAIN str |-> LowerChar(str[i])]

----------------------------------------------------------------------------
(* Credential hasher: models/password.js *)

\* the bytes of the password bcrypt's key schedule reads
BcryptKeyBytes == 72

\* the key bcrypt derives the digest from: the first BcryptKeyBytes bytes of
\* the password (the characters of the model are one byte each)
bcryptKey(password) ==
  IF Len(password) <= BcryptKeyBytes THEN password
  ELSE SubSeq(password, 1, BcryptKeyBytes)

\* password.hash: a bcrypt string carries the algorithm, the salt and the
\* digest of (key, salt), which the key itself stands for
hash(password, salt) == <<"$2a$", salt>> \o bcryptKey(password)

----------------------------------------------------------------------------
(* Users table *)

\* the constraints compared letter by letter, case included
UsersUnique_exact(rows, id, username, email) ==
  \A i \in DOMAIN rows :
    rows[i].id # id =>
      /\ rows[i].username # username
      /\ rows[i].email # email

\* the users table's unique constraints on username and on email, both
\* without regard to case: the row with id `id` may carry (username, email)
\* when no other row carries either
UsersUnique(rows, id, username, email) ==
  \A i \in DOMAIN rows :
    rows[i].id # id =>
      /\ LOWER(rows[i].username) # LOWER(username)
      /\ LOWER(rows[i].email) # LOWER(email)

\* the row an INSERT INTO users (username, email, password) produces:
\* id, created_at and updated_at are the table's defaults
UsersNewRow(rows, username, email, password, t) ==
  [id |-> Len(rows) + 1, username |-> username, email |-> email,
   password |-> password, created_at |-> t, updated_at |-> t]

----------------------------------------------------------------------------
(* User directory: models/user.js *)

\* the values the model's callers submit
Usernames == {<<"a", "b">>, <<"A", "b">>, <<"c", "d">>}
Emails == {<<"x", "@", "y">>, <<"X", "@", "y">>, <<"z", "@", "y">>}
Passwords == {<<"p", "w">>}
Salts == {"salt1"}

\* two callers, whose calls may overlap
Callers == {1, 2}

\* userInputValues of create
CreateInputs ==
  [username : Usernames, email : Emails, password : Passwords]

\* the records with fields `keys`, field k drawn from vals[k]
Records(keys, vals) ==
  {f \in [keys -> UNION {vals[k] : k \in keys}] :
     \A k \in keys : f[k] \in vals[k]}

\* userInputValues of update: any subset of the three fields
UpdateInputs ==
  UNION {Records(keys, [username |-> Usernames, email |-> Emails,
                        password |-> Passwords]) :
           keys \in SUBSET {"username", "email", "password"}}

\* what one caller at a time submits: every input
Sequential ==
  [callers |-> {1}, creates |-> CreateInputs, usernames |-> Usernames,
   updates |-> UpdateInputs]

\* what two callers whose calls overlap submit. Three users to create: the
\* first two collide on username, the first and the third on email, the last
\* two on nothing. Updates of one field, username or email, of the user a
\* lower-case username names.
Overlapping ==
  [callers |-> Callers,
   creates |-> {[username |-> <<"a", "b">>, email |-> <<"x", "@", "y">>,
                 password |-> <<"p", "w">>],
                [username |-> <<"A", "b">>, email |-> <<"z", "@", "y">>,
                 password |-> <<"p", "w">>],
                [username |-> <<"c", "d">>, email |-> <<"X", "@", "y">>,
                 password |-> <<"p", "w">>]},
   usernames |-> {<<"a", "b">>, <<"c", "d">>},
   updates |-> {f \in UpdateInputs : DOMAIN f \in {{"username"}, {"email"}}}]

\* WHERE LOWER(username) = LOWER($1), compared without LOWER()
validateUniqueUsername_where_exact(row, username) ==
  row.username = username

\* validateUniqueUsername: WHERE LOWER(username) = LOWER($1)
validateUniqueUsername_where(row, username) ==
  LOWER(row.username) = LOWER(username)

\* WHERE LOWER(email) = LOWER($1), compared without LOWER()
validateUniqueEmail_where_exact(row, email) ==
  row.email = email

\* validateUniqueEmail: WHERE LOWER(email) = LOWER($1)
validateUniqueEmail_where(row, email) ==
  LOWER(row.email) = LOWER(email)

\* validateUniqueUsername(username): the error thrown, or NoValue
validateUniqueUsername(rows, username) ==
  IF \E i \in DOMAIN rows : validateUniqueUsername_where(rows[i], username)
  THEN ValidationError(
         [message |-> "O username informado já está sendo utilizado.",
          action |-> "Utilize outro username para realizar esta operação."])
  ELSE NoValue

\* validateUniqueEmail(email): the error thrown, or NoValue
validateUniqueEmail(rows, email) ==
  IF \E i \in DOMAIN rows : validateUniqueEmail_where(rows[i], email)
  THEN ValidationError(
         [message |-> "O email informado já está sendo utilizado.",
          action |-> "Utilize outro email para realizar esta operação."])
  ELSE NoValue

\* findOneByUsername comparing the username as it was typed
findOneByUsername_exact(rows, username) ==
  LET found == {i \in DOMAIN rows : rows[i].username = username}
  IN IF found = {}
     THEN {Fail(NotFoundError(
             [message |-> "O username informado não foi encontrado no sistema.",
              action |-> "Verifique se o username está digitado corretamente."]))}
     ELSE {Ok(rows[i]) : i \in found}

\* findOneByUsername(username): the outcomes the call can have (LIMIT 1)
findOneByUsername(rows, username) ==
  LET found == {i \in DOMAIN rows :
                  LOWER(rows[i].username) = LOWER(username)}
  IN IF found = {}
     THEN {Fail(NotFoundError(
             [message |-> "O username informado não foi encontrado no sistema.",
              action |-> "Verifique se o username está digitado corretamente."]))}
     ELSE {Ok(rows[i]) : i \in found}

\* a hashPasswordInObject that leaves the password as it was typed
hashPasswordInObject_plain(userInputValues, salt) == userInputValues

\* hashPasswordInObject: the input with its password replaced by the hash
hashPasswordInObject(userInputValues, salt) ==
  [userInputValues EXCEPT !.password = hash(userInputValues.password, salt)]

\* { ...currentUser, ...userInputValues }
Merge(currentUser, userInputValues) ==
  [k \in DOMAIN currentUser \cup DOMAIN userInputValues |->
     IF k \in DOMAIN userInputValues THEN userInputValues[k]
     ELSE currentUser[k]]

\* create.runInsertQuery through database.query: the new table and the outcome
create_runInsertQuery(rows, v, t) ==
  IF UsersUnique(rows, Len(rows) + 1, v.username, v.email)
  THEN LET row == UsersNewRow(rows, v.username, v.email, v.password, t)
       IN [rows |-> Append(rows, row), out |-> Ok(row)]
  ELSE [rows |-> rows, out |-> Fail(queryCatch("unique_violation"))]

\* update.runUpdateQuery through database.query: the new table and the outcome
update_runUpdateQuery(rows, v, t) ==
  IF \E i \in DOMAIN rows : rows[i].id = v.id
  THEN IF UsersUnique(rows, v.id, v.username, v.email)
       THEN LET new == [i \in DOMAIN rows |->
                          IF rows[i].id = v.id
                          THEN [rows[i] EXCEPT !.username = v.username,
                                               !.email = v.email,
                                               !.password = v.password,
                                               !.updated_at = t]
                          ELSE rows[i]]
            IN [rows |-> new,
                out |-> Ok(new[CHOOSE i \in DOMAIN new : new[i].id = v.id])]
       ELSE [rows |-> rows, out |-> Fail(queryCatch("unique_violation"))]
  ELSE [rows |-> rows, out |-> Ok(NoValue)]

\* a caller that is in no call
Idle ==
  [pc |-> "idle", op |-> "none", username |-> NoValue, input |-> NoValue,
   currentUser |-> NoValue]

Free(p) == calls[p].pc = "idle"

\* what a call that has ended leaves: its arguments, its outcome, and whether
\* the storage refused its write
URet(call, out, collided) ==
  [op |-> call.op, username |-> call.username, input |-> call.input,
   out |-> out, collided |-> collided]

NoURet == URet(Idle, NoValue, FALSE)

\* the call `call` of caller p ends with outcome `out`
Done(p, call, out, collided) ==
  /\ calls' = [calls EXCEPT ![p] = Idle]
  /\ uret' = URet(call, out, collided)

\* the step of update that follows step `after`
update_next(userInputValues, after) ==
  IF after = "findOneByUsername" /\ "username" \in DOMAIN userInputValues
  THEN "update_validateUniqueUsername"
  ELSE IF after \in {"findOneByUsername", "validateUniqueUsername"}
          /\ "email" \in DOMAIN userInputValues
  THEN "update_validateUniqueEmail"
  ELSE "update_runUpdateQuery"

UserInit ==
  /\ users = <<>>
  /\ calls = [p \in Callers |-> Idle]
  /\ uret = NoURet
  /\ created = {}
  /\ supplied = <<>>

\* the call `call` of caller p ends because the storage cannot be reached
Unreachable(p, call) ==
  /\ Done(p, call, Fail(queryCatch("connection_refused")), FALSE)
  /\ UNCHANGED <<users, created, supplied>>

\* a create that checks the email first
UserCreate_emailFirst(p, inputs) ==
  \E userInputValues \in inputs :
    /\ Free(p)
    /\ LET err == validateUniqueEmail(users, userInputValues.email)
           call == [Idle EXCEPT !.op = "create", !.input = userInputValues]
       IN IF db = "down" THEN Unreachable(p, call)
          ELSE /\ IF err # NoValue
                  THEN Done(p, call, Fail(err), FALSE)
                  ELSE /\ calls' = [calls EXCEPT ![p] =
                            [call EXCEPT !.pc = "create_validateUniqueEmail"]]
                       /\ uret' = NoURet
               /\ UNCHANGED <<users, created, supplied>>

\* user.create(userInputValues), to the end of validateUniqueUsername
UserCreate(p, inputs) ==
  \E userInputValues \in inputs :
    /\ Free(p)
    /\ LET err == validateUniqueUsername(users, userInputValues.username)
           call == [Idle EXCEPT !.op = "create", !.input = userInputValues]
       IN IF db = "down" THEN Unreachable(p, call)
          ELSE /\ IF err # NoValue
                  THEN Done(p, call, Fail(err), FALSE)
                  ELSE /\ calls' = [calls EXCEPT ![p] =
                            [call EXCEPT !.pc = "create_validateUniqueEmail"]]
                       /\ uret' = NoURet
               /\ UNCHANGED <<users, created, supplied>>

\* create: validateUniqueEmail
UserCreate_validateUniqueEmail(p) ==
  /\ calls[p].pc = "create_validateUniqueEmail"
  /\ LET err == validateUniqueEmail(users, calls[p].input.email)
     IN IF db = "down" THEN Unreachable(p, calls[p])
        ELSE /\ IF err # NoValue
                THEN Done(p, calls[p], Fail(err), FALSE)
                ELSE /\ calls' = [calls EXCEPT
                          ![p].pc = "create_runInsertQuery"]
                     /\ uret' = NoURet
             /\ UNCHANGED <<users, created, supplied>>

\* create: hashPasswordInObject and runInsertQuery
UserCreate_runInsertQuery(p) ==
  /\ calls[p].pc = "create_runInsertQuery"
  /\ \E salt \in Salts :
       LET v == hashPasswordInObject(calls[p].input, salt)
           r == create_runInsertQuery(users, v, now)
       IN IF db = "down" THEN Unreachable(p, calls[p])
          ELSE /\ users' = r.rows
               /\ Done(p, calls[p], r.out, ~r.out.ok)
               /\ created' = IF r.out.ok
                             THEN created \cup
                                    {[id |-> r.out.val.id,
                                      username |-> calls[p].input.username,
                                      email |-> calls[p].input.email]}
                             ELSE created
               /\ supplied' = IF r.out.ok
                              THEN Append(supplied, calls[p].input.password)
                              ELSE supplied

\* an update that checks the new username before it loads the user
UserUpdate_validateFirst(p, usernames, inputs) ==
  \E username \in usernames, userInputValues \in inputs :
    /\ Free(p)
    /\ \E o \in findOneByUsername(users, username) :
         LET call == [Idle EXCEPT !.op = "update", !.username = username,
                                  !.input = userInputValues]
             err == IF "username" \in DOMAIN userInputValues
                    THEN validateUniqueUsername(users,
                                                userInputValues.username)
                    ELSE NoValue
         IN IF db = "down" THEN Unreachable(p, call)
            ELSE /\ IF err # NoValue
                    THEN Done(p, call, Fail(err), FALSE)
                    ELSE IF ~o.ok
                    THEN Done(p, call, o, FALSE)
                    ELSE /\ calls' = [calls EXCEPT ![p] =
                              [call EXCEPT
                                 !.pc = update_next(userInputValues,
                                                    "validateUniqueUsername"),
                                 !.currentUser = o.val]]
                         /\ uret' = NoURet
                 /\ UNCHANGED <<users, created, supplied>>

\* user.update(username, userInputValues), to the end of findOneByUsername
UserUpdate(p, usernames, inputs) ==
  \E username \in usernames, userInputValues \in inputs :
    /\ Free(p)
    /\ \E o \in findOneByUsername(users, username) :
         LET call == [Idle EXCEPT !.op = "update", !.username = username,
                                  !.input = userInputValues]
         IN IF db = "down" THEN Unreachable(p, call)
            ELSE /\ IF ~o.ok
                    THEN Done(p, call, o, FALSE)
                    ELSE /\ calls' = [calls EXCEPT ![p] =
                              [call EXCEPT
                                 !.pc = update_next(userInputValues,
                                                    "findOneByUsername"),
                                 !.currentUser = o.val]]
                         /\ uret' = NoURet
                 /\ UNCHANGED <<users, created, supplied>>

\* update: validateUniqueUsername
UserUpdate_validateUniqueUsername(p) ==
  /\ calls[p].pc = "update_validateUniqueUsername"
  /\ LET err == validateUniqueUsername(users, calls[p].input.username)
     IN IF db = "down" THEN Unreachable(p, calls[p])
        ELSE /\ IF err # NoValue
                THEN Done(p, calls[p], Fail(err), FALSE)
                ELSE /\ calls' = [calls EXCEPT ![p].pc =
                          update_next(calls[p].input, "validateUniqueUsername")]
                     /\ uret' = NoURet
             /\ UNCHANGED <<users, created, supplied>>

\* an update that writes the new username as soon as it has been validated,
\* before the email is
UserUpdate_validateUniqueEmail_afterWrite(p) ==
  /\ calls[p].pc = "update_validateUniqueEmail"
  /\ LET err == validateUniqueEmail(users, calls[p].input.email)
         written == IF "username" \in DOMAIN calls[p].input
                    THEN [username |-> calls[p].input.username]
                    ELSE <<>>
         r == update_runUpdateQuery(users,
                                    Merge(calls[p].currentUser, written), now)
     IN IF db = "down" THEN Unreachable(p, calls[p])
        ELSE /\ IF err # NoValue
                THEN /\ Done(p, calls[p], Fail(err), FALSE)
                     /\ users' = r.rows
                ELSE /\ calls' = [calls EXCEPT ![p].pc =
                          update_next(calls[p].input, "validateUniqueEmail")]
                     /\ uret' = NoURet
                     /\ UNCHANGED users
             /\ UNCHANGED <<created, supplied>>

\* update: validateUniqueEmail
UserUpdate_validateUniqueEmail(p) ==
  /\ calls[p].pc = "update_validateUniqueEmail"
  /\ LET err == validateUniqueEmail(users, calls[p].input.email)
     IN IF db = "down" THEN Unreachable(p, calls[p])
        ELSE /\ IF err # NoValue
                THEN Done(p, calls[p], Fail(err), FALSE)
                ELSE /\ calls' = [calls EXCEPT ![p].pc =
                          update_next(calls[p].input, "validateUniqueEmail")]
                     /\ uret' = NoURet
             /\ UNCHANGED <<users, created, supplied>>

\* update: hashPasswordInObject, the merge and runUpdateQuery
UserUpdate_runUpdateQuery(p) ==
  /\ calls[p].pc = "update_runUpdateQuery"
  /\ \E salt \in Salts :
       LET input == IF "password" \in DOMAIN calls[p].input
                    THEN hashPasswordInObject(calls[p].input, salt)
                    ELSE calls[p].input
           userWithNewValues == Merge(calls[p].currentUser, input)
           r == update_runUpdateQuery(users, userWithNewValues, now)
       IN IF db = "down" THEN Unreachable(p, calls[p])
          ELSE /\ users' = r.rows
               /\ Done(p, calls[p], r.out, ~r.out.ok)
               /\ supplied' =
                    IF r.out.ok /\ "password" \in DOMAIN calls[p].input
                    THEN [supplied EXCEPT ![userWithNewValues.id] =
                            calls[p].input.password]
                    ELSE supplied
               /\ UNCHANGED created

----------------------------------------------------------------------------
(* Authentication service: models/authentication.js *)

\* a password that was never set, and differs from a set one in case only
Typos == {<<"p", "W">>}

\* the passwords user.update sets
NewPasswords == {<<"n", "w">>}

\* the passwords a client submits
AuthPasswords == Passwords \cup NewPasswords \cup Typos

\* what the callers of the user directory submit while clients log in:
\* sign-ups, changes of email, one change of username and changes of password
Signup ==
  [callers |-> {1},
   creates |-> {c \in CreateInputs : c.username = LOWER(c.username)},
   usernames |-> {u \in Usernames : u = LOWER(u)},
   updates |-> {f \in UpdateInputs : DOMAIN f = {"email"}} \cup
               {[username |-> <<"c", "d">>]} \cup
               {[password |-> pw] : pw \in NewPasswords}]

\* findOneByEmail's SELECT through database.query: the outcomes it can have
\* (LIMIT 1 returns any one of the matching rows)
findOneByEmail_exact(rows, d, email) ==
  LET found == {i \in DOMAIN rows : rows[i].email = email}
  IN IF d = "down" THEN {Fail(queryCatch("connection_refused"))}
     ELSE IF found = {}
     THEN {Fail(NotFoundError(
             [message |-> "O email informado não foi encontrado no sistema.",
              action |-> "Verifique se o email está digitado corretamente."]))}
     ELSE {Ok(rows[i]) : i \in found}

\* user.findOneByEmail(email) with the storage in state d
findOneByEmail(rows, d, email) ==
  LET found == {i \in DOMAIN rows : LOWER(rows[i].email) = LOWER(email)}
  IN IF d = "down" THEN {Fail(queryCatch("connection_refused"))}
     ELSE IF found = {}
     THEN {Fail(NotFoundError(
             [message |-> "O email informado não foi encontrado no sistema.",
              action |-> "Verifique se o email está digitado corretamente."]))}
     ELSE {Ok(rows[i]) : i \in found}

\* password.compare: bcrypt takes the salt out of the stored hash, hashes the
\* provided password with it and compares the two
compare(providedPassword, storedPassword) ==
  /\ Len(storedPassword) >= 2
  /\ hash(providedPassword, storedPassword[2]) = storedPassword

\* findUserByEmail with a catch that turns every error into UnauthorizedError
findUserByEmail_catch_all(error) ==
  UnauthorizedError([message |-> "Email não confere.",
                     action |-> "Verifique se este dado está correto."])

\* findUserByEmail's catch: NotFoundError becomes UnauthorizedError
findUserByEmail_catch(error) ==
  IF error.name = "NotFoundError"
  THEN UnauthorizedError([message |-> "Email não confere.",
                          action |-> "Verifique se este dado está correto."])
  ELSE error

\* validatePassword: the error thrown, or NoValue
validatePassword(providedPassword, storedPassword) ==
  IF ~compare(providedPassword, storedPassword)
  THEN UnauthorizedError([message |-> "Senha não confere.",
                          action |-> "Verifique se este dado está correto."])
  ELSE NoValue

\* getAuthenticatedUser with a catch that throws what it caught
getAuthenticatedUser_catch_rethrow(error) == error

\* getAuthenticatedUser's catch: UnauthorizedError is replaced by a generic one
getAuthenticatedUser_catch(error) ==
  IF error.name = "UnauthorizedError"
  THEN UnauthorizedError(
         [message |-> "Dados de autenticação não conferem.",
          action |-> "Verifique se os dados enviados estão corretos."])
  ELSE error

\* getAuthenticatedUser, given the outcome `found` of user.findOneByEmail
getAuthenticatedUser_try(found, providedPassword) ==
  IF ~found.ok
  THEN Fail(getAuthenticatedUser_catch(findUserByEmail_catch(found.err)))
  ELSE LET err == validatePassword(providedPassword, found.val.password)
       IN IF err # NoValue
          THEN Fail(getAuthenticatedUser_catch(err))
          ELSE Ok(found.val)

\* getAuthenticatedUser(providedEmail, providedPassword): the outcomes the
\* call can have on table `rows` with the storage in state d
getAuthenticatedUser(rows, d, providedEmail, providedPassword) ==
  {getAuthenticatedUser_try(found, providedPassword) :
     found \in findOneByEmail(rows, d, providedEmail)}

\* what an authentication call leaves: its arguments, what the user lookup
\* gave, and its outcome
ARet(op, email, pw, found, out) ==
  [op |-> op, email |-> email, password |-> pw, found |-> found, out |-> out]

NoARet == ARet("none", NoValue, NoValue, NoValue, NoValue)

AuthInit ==
  /\ db = "up"
  /\ aret = NoARet

\* authentication.getAuthenticatedUser(providedEmail, providedPassword)
Authenticate ==
  \E providedEmail \in Emails, providedPassword \in AuthPasswords :
    \E found \in findOneByEmail(users, db, providedEmail) :
      aret' = ARet("getAuthenticatedUser", providedEmail, providedPassword,
                   found, getAuthenticatedUser_try(found, providedPassword))

----------------------------------------------------------------------------
(* Data-access layer: database.query, step by step *)

\* the callers of database.query, whose calls may overlap
QueryCallers == {1, 2}

\* the statements the callers submit: one the storage runs, one it refuses
Statements == {"SELECT 1 + 1 AS sum;", "SELEC 1;"}

\* `let client;`: no Client yet
undefined == 0

\* nothing was thrown
NoError == "none"

\* a caller that is in no database.query call
QIdle ==
  [pc |-> "idle", queryInput |-> "", client |-> undefined,
   thrown |-> NoError, out |-> NoValue]

\* what a database.query call leaves: its statement, the connection it had
\* opened, what the driver threw, and its outcome
QRet(op, call, out) ==
  [op |-> op, queryInput |-> call.queryInput, client |-> call.client,
   thrown |-> call.thrown, out |-> out]

NoQRet == QRet("none", QIdle, NoValue)

\* getNewClient: client.connect() against the storage in state d, the error
\* thrown or NoError
connect(d) == IF d = "down" THEN "connection_refused" ELSE NoError

\* client.query(queryInput) against the storage in state d: the rows, or the
\* error the driver throws
clientQuery(d, queryInput) ==
  IF d = "down" THEN Fail("connection_terminated")
  ELSE IF queryInput = "SELEC 1;" THEN Fail("syntax_error")
  ELSE Ok([rows |-> <<[sum |-> 2]>>])

\* the finally block, `await client?.end()`: the error it throws, or NoError
queryFinally_throws(client) == NoError

\* the finally block ending no connection
queryFinally_leak(connections, client) == connections

\* the finally block, `await client?.end()`: the connections left open
queryFinally(connections, client) == connections \ {client}

\* the outcome of a call whose try and catch gave `out` and whose finally
\* block threw `err` (an error thrown in finally replaces the outcome)
queryOutcome(out, err) ==
  IF err # NoError THEN Fail(DriverError(err)) ELSE out

DatabaseInit ==
  /\ open = {}
  /\ opened = 0
  /\ qcalls = [p \in QueryCallers |-> QIdle]
  /\ qret = NoQRet

\* database.query(queryInput): getNewClient. When the connection fails the
\* catch and the finally block run at once and the call ends.
QueryConnect(p) ==
  \E queryInput \in Statements :
    /\ qcalls[p].pc = "idle"
    /\ opened < MaxQueries
    /\ LET err == connect(db)
           call == [QIdle EXCEPT !.queryInput = queryInput]
       IN IF err # NoError
          THEN LET failed == [call EXCEPT !.thrown = err]
               IN /\ qret' = QRet("query", failed,
                                 queryOutcome(Fail(queryCatch(err)),
                                              queryFinally_throws(undefined)))
                  /\ open' = queryFinally(open, undefined)
                  /\ UNCHANGED <<qcalls, opened>>
          ELSE /\ open' = open \cup {opened + 1}
               /\ opened' = opened + 1
               /\ qcalls' = [qcalls EXCEPT ![p] =
                    [call EXCEPT !.pc = "query", !.client = opened + 1]]
               /\ qret' = NoQRet

\* query: client.query(queryInput), and the catch block when it throws
QueryRun(p) ==
  /\ qcalls[p].pc = "query"
  /\ LET result == clientQuery(db, qcalls[p].queryInput)
     IN qcalls' = [qcalls EXCEPT
          ![p].pc = "finally",
          ![p].thrown = IF result.ok THEN NoError ELSE result.err,
          ![p].out = IF result.ok THEN result
                     ELSE Fail(queryCatch(result.err))]
  /\ qret' = NoQRet
  /\ UNCHANGED <<open, opened>>

\* query: the finally block, then the return or the throw
QueryEnd(p) ==
  /\ qcalls[p].pc = "finally"
  /\ open' = queryFinally(open, qcalls[p].client)
  /\ qret' = QRet("query", qcalls[p],
                  queryOutcome(qcalls[p].out,
                               queryFinally_throws(qcalls[p].client)))
  /\ qcalls' = [qcalls EXCEPT ![p] = QIdle]
  /\ UNCHANGED opened

----------------------------------------------------------------------------
(* Migration runner: models/migrator.js *)

\* the migration files of infra/migrations, named by ascending identifier
Migrations == 1..MaxMigrations

\* the elements of a sequence
Range(seq) == {seq[i] : i \in DOMAIN seq}

defaultMigrationOptions ==
  [dryRun |-> TRUE, direction |-> "up", migrationsTable |-> "pgmigrations"]

\* listPendingMigrations running with dryRun: false
listPendingMigrations_options_wet ==
  [defaultMigrationOptions EXCEPT !.dryRun = FALSE]

\* { ...defaultMigrationOptions, dbClient }
listPendingMigrations_options == defaultMigrationOptions

\* runPendingMigrations running with the default dryRun: true
runPendingMigrations_options_dry == defaultMigrationOptions

\* { ...defaultMigrationOptions, dbClient, dryRun: false }
runPendingMigrations_options ==
  [defaultMigrationOptions EXCEPT !.dryRun = FALSE]

\* the options each operation gives the runner
optionsOf(op) ==
  IF op = "listPendingMigrations" THEN listPendingMigrations_options
  ELSE runPendingMigrations_options

\* the message of the ServiceError each operation throws
messageOf(op) ==
  IF op = "listPendingMigrations" THEN "Erro ao listar migrações pendentes."
  ELSE "Erro ao executar migrações pendentes."

\* the runner's resolution: the migrations the ledger does not record, in
\* ascending order of identifier
migrationRunner_toRun(led) ==
  SelectSeq([i \in 1..MaxMigrations |-> i], LAMBDA m : m \notin Range(led))

\* a runner that runs the whole batch in one transaction: a failure takes
\* back the migrations `done` the run had applied
migrationRunner_rollback_batch(led, sch, done) ==
  [ledger |-> SelectSeq(led, LAMBDA m : m \notin Range(done)),
   schema |-> sch \ Range(done)]

\* the runner runs each migration in a transaction of its own: a failure
\* takes back the failing migration alone
migrationRunner_rollback(led, sch, done) ==
  [ledger |-> led, schema |-> sch]

\* a migration commits: the schema has its changes, the ledger its identifier
migrationRunner_commit(led, sch, m) ==
  [ledger |-> Append(led, m), schema |-> sch \cup {m}]

\* no migrator call is running
MIdle ==
  [pc |-> "idle", op |-> "none", options |-> NoValue, toRun |-> <<>>,
   todo |-> <<>>, done |-> <<>>, failedAt |-> 0, thrown |-> NoError,
   out |-> NoValue, before |-> NoValue, dbClient |-> undefined]

\* the Client database.getNewClient() hands the migrator: the calls of the
\* migrator do not overlap, so one name stands for each of them in turn; it
\* is numbered past the Clients of database.query
MigratorClient == MaxQueries + 1

\* what a migrator call leaves: its outcome, the migrations it applied, the
\* migration that failed (0: none), what getNewClient or the runner threw,
\* the ledger and schema it started from, the Client it had acquired, and the
\* call that ended before it
MRet(call, out, prev) ==
  [op |-> call.op, out |-> out, applied |-> call.done,
   failedAt |-> call.failedAt, thrown |-> call.thrown,
   before |-> call.before, dbClient |-> call.dbClient, prev |-> prev]

\* the finally block as `await dbClient.end()`: a TypeError when
\* getNewClient() failed and dbClient is undefined
migratorFinally_throws_unguarded(dbClient) ==
  IF dbClient = undefined THEN "TypeError" ELSE NoError

\* the finally block, `await dbClient?.end()`: the error it throws, or NoError
migratorFinally_throws(dbClient) == NoError

\* the finally block, `await dbClient?.end()`: the connections left open
migratorFinally(connections, dbClient) ==
  IF dbClient = undefined THEN connections ELSE connections \ {dbClient}

\* the outcome of a call whose try and catch gave `out` and whose finally
\* block threw `err` (an error thrown in finally replaces the outcome)
migratorOutcome(out, err) ==
  IF err # NoError THEN Fail(DriverError(err)) ELSE out

\* a catch block that throws the ServiceError without the error it caught
migratorCatch_nocause(op, error) ==
  ServiceError([message |-> messageOf(op)])

\* the catch block of both operations: new ServiceError({ message, cause })
migratorCatch(op, error) ==
  ServiceError([message |-> messageOf(op), cause |-> error])

NoMRet == MRet(MIdle, NoValue, NoValue)

MigratorInit ==
  /\ ledger = <<>>
  /\ schema = {}
  /\ mcall = MIdle
  /\ mlast = [op |-> "none", ok |-> TRUE]
  /\ mret = NoMRet

\* listPendingMigrations() / runPendingMigrations(): database.getNewClient()
\* and the runner's resolution of what to run
MigratorStart ==
  \E op \in {"listPendingMigrations", "runPendingMigrations"} :
    /\ mcall.pc = "idle"
    /\ LET err == connect(db)
           call == [MIdle EXCEPT !.op = op, !.options = optionsOf(op),
                                 !.before = [ledger |-> ledger,
                                             schema |-> schema]]
           toRun == migrationRunner_toRun(ledger)
       IN IF err # NoError
          THEN /\ mret' = MRet([call EXCEPT !.thrown = err],
                               migratorOutcome(
                                 Fail(migratorCatch(op, err)),
                                 migratorFinally_throws(call.dbClient)),
                               mlast)
               /\ open' = migratorFinally(open, call.dbClient)
               /\ mlast' = [op |-> op, ok |-> FALSE]
               /\ UNCHANGED mcall
          ELSE /\ mcall' = [call EXCEPT
                              !.pc = IF toRun = <<>> THEN "finally"
                                     ELSE "runner",
                              !.toRun = toRun, !.todo = toRun,
                              !.out = Ok(toRun),
                              !.dbClient = MigratorClient]
               /\ open' = open \cup {MigratorClient}
               /\ mret' = NoMRet
               /\ UNCHANGED mlast
    /\ UNCHANGED <<ledger, schema>>

\* the runner takes the next migration: with dryRun it applies nothing and
\* goes through the list, which fails when the storage has gone; otherwise
\* the migration commits or fails, and a failure ends the run
MigratorApply ==
  /\ mcall.pc = "runner"
  /\ IF mcall.options.dryRun
     THEN /\ mcall' =
               IF db = "down"
               THEN [mcall EXCEPT
                       !.pc = "finally", !.thrown = "connection_terminated",
                       !.out = Fail(migratorCatch(mcall.op,
                                                  "connection_terminated"))]
               ELSE [mcall EXCEPT !.pc = "finally", !.todo = <<>>]
          /\ UNCHANGED <<ledger, schema>>
     ELSE \E fails \in BOOLEAN :
            /\ db = "down" => fails
            /\ LET m == Head(mcall.todo)
                   r == IF fails
                        THEN migrationRunner_rollback(ledger, schema,
                                                      mcall.done)
                        ELSE migrationRunner_commit(ledger, schema, m)
               IN /\ ledger' = r.ledger
                  /\ schema' = r.schema
                  /\ mcall' =
                       IF fails
                       THEN [mcall EXCEPT
                               !.pc = "finally", !.failedAt = m,
                               !.thrown = "migration_failed",
                               !.out = Fail(migratorCatch(mcall.op,
                                                          "migration_failed"))]
                       ELSE [mcall EXCEPT
                               !.pc = IF Tail(mcall.todo) = <<>>
                                      THEN "finally" ELSE "runner",
                               !.todo = Tail(mcall.todo),
                               !.done = Append(mcall.done, m)]
  /\ mret' = NoMRet
  /\ UNCHANGED <<mlast, open>>

\* the finally block, dbClient?.end(), then the return or the throw
MigratorEnd ==
  /\ mcall.pc = "finally"
  /\ open' = migratorFinally(open, mcall.dbClient)
  /\ mret' = MRet(mcall,
                  migratorOutcome(mcall.out,
                                  migratorFinally_throws(mcall.dbClient)),
                  mlast)
  /\ mlast' = [op |-> mcall.op, ok |-> mcall.out.ok]
  /\ mcall' = MIdle
  /\ UNCHANGED <<ledger, schema>>

----------------------------------------------------------------------------
(* The services' steps. sret, uret, aret, qret and mret tell what the step *)
(* just taken has ended: a step of one service leaves the others' empty.   *)

NoSRet == SRet("none", NoValue, TRUE, NoValue, NoValue)

\* the tables and calls of each service
SessionState == <<now, ticks, sessions, expired, expires, issued>>
UserState == <<users, calls, created, supplied>>
QueryState == <<open, opened, qcalls>>
MigratorState == <<ledger, schema, mcall, mlast>>

\* what a step of the session manager leaves alone
SessionOnly ==
  /\ UNCHANGED <<UserState, db, QueryState, MigratorState, lvars>>
  /\ uret' = NoURet
  /\ aret' = NoARet
  /\ qret' = NoQRet
  /\ mret' = NoMRet

\* what a step of the user directory leaves alone
UserOnly ==
  /\ UNCHANGED <<SessionState, db, QueryState, MigratorState, lvars>>
  /\ sret' = NoSRet
  /\ aret' = NoARet
  /\ qret' = NoQRet
  /\ mret' = NoMRet

\* what a step of the authentication service leaves alone
AuthOnly ==
  /\ UNCHANGED <<SessionState, UserState, db, QueryState, MigratorState, lvars>>
  /\ sret' = NoSRet
  /\ uret' = NoURet
  /\ qret' = NoQRet
  /\ mret' = NoMRet

\* what a step of database.query leaves alone
QueryOnly ==
  /\ UNCHANGED <<SessionState, UserState, db, MigratorState, lvars>>
  /\ sret' = NoSRet
  /\ uret' = NoURet
  /\ aret' = NoARet
  /\ mret' = NoMRet

\* what a step of the migrator leaves alone
MigratorOnly ==
  /\ UNCHANGED <<SessionState, UserState, db, opened, qcalls, lvars>>
  /\ sret' = NoSRet
  /\ uret' = NoURet
  /\ aret' = NoARet
  /\ qret' = NoQRet

\* the storage goes out of reach, or comes back
Outage ==
  /\ db' = IF db = "up" THEN "down" ELSE "up"
  /\ UNCHANGED <<SessionState, UserState, QueryState, MigratorState, lvars>>
  /\ sret' = NoSRet
  /\ uret' = NoURet
  /\ aret' = NoARet
  /\ qret' = NoQRet
  /\ mret' = NoMRet

SessionNext ==
  \/ SessionCreate /\ SessionOnly
  \/ SessionFind /\ SessionOnly
  \/ SessionRenew /\ SessionOnly
  \/ SessionExpire /\ SessionOnly
  \/ Tick /\ SessionOnly

\* the steps of the callers u.callers, who submit what u holds
UserNext(u) ==
  \E p \in u.callers :
    \/ UserCreate(p, u.creates) /\ UserOnly
    \/ UserCreate_validateUniqueEmail(p) /\ UserOnly
    \/ UserCreate_runInsertQuery(p) /\ UserOnly
    \/ UserUpdate(p, u.usernames, u.updates) /\ UserOnly
    \/ UserUpdate_validateUniqueUsername(p) /\ UserOnly
    \/ UserUpdate_validateUniqueEmail(p) /\ UserOnly
    \/ UserUpdate_runUpdateQuery(p) /\ UserOnly

AuthNext ==
  \/ Authenticate /\ AuthOnly
  \/ Outage
  \/ UserNext(Signup)

DatabaseNext ==
  \/ \E p \in QueryCallers :
       \/ QueryConnect(p) /\ QueryOnly
       \/ QueryRun(p) /\ QueryOnly
       \/ QueryEnd(p) /\ QueryOnly
  \/ Outage

MigratorNext ==
  \/ MigratorStart /\ MigratorOnly
  \/ MigratorApply /\ MigratorOnly
  \/ MigratorEnd /\ MigratorOnly
  \/ Outage

\* what two callers submit who sign up under one username at once, and
\* change that user's email
Colliding ==
  [callers |-> Callers,
   creates |-> {c \in CreateInputs : c.username = <<"a", "b">>
                                      /\ c.email = <<"x", "@", "y">>},
   usernames |-> {<<"a", "b">>},
   updates |-> {[email |-> <<"z", "@", "y">>]}]

\* the public operations of the four services, the storage going out of
\* reach at will. The migrator runs at deployment and test set-up, while no
\* call of the user directory is in flight; MaxCoreSessions sessions are
\* created.
CoreNext ==
  \/ Len(sessions) < MaxCoreSessions /\ SessionCreate /\ SessionOnly
  \/ SessionFind /\ SessionOnly
  \/ SessionRenew /\ SessionOnly
  \/ SessionExpire /\ SessionOnly
  \/ mcall.pc = "idle" /\ UserNext(Colliding)
  \/ Authenticate /\ AuthOnly
  \/ (\A p \in Callers : Free(p)) /\ MigratorStart /\ MigratorOnly
  \/ MigratorApply /\ MigratorOnly
  \/ MigratorEnd /\ MigratorOnly
  \/ Outage

----------------------------------------------------------------------------
(* Error taxonomy: construction and rendering *)

\* the classes infra/errors.js exports
ErrorKinds ==
  {"InternalServerError", "ServiceError", "ValidationError", "NotFoundError",
   "UnauthorizedError", "MethodNotAllowedError"}

\* the parameter objects the constructors are given: any of the fields,
\* an empty text and a zero included
ErrorParams ==
  LET texts == UNION {Records(keys, [cause |-> {"driver_error"},
                                     message |-> {"", "m"},
                                     action |-> {"", "a"}]) :
                        keys \in SUBSET {"cause", "message", "action"}}
      codes == {<<>>} \cup {[statusCode |-> c] : c \in {0, 502}}
  IN {t @@ c : t \in texts, c \in codes}

\* new <kind>(p)
New(kind, p) ==
  CASE kind = "InternalServerError" -> InternalServerError(p)
    [] kind = "ServiceError" -> ServiceError(p)
    [] kind = "ValidationError" -> ValidationError(p)
    [] kind = "NotFoundError" -> NotFoundError(p)
    [] kind = "UnauthorizedError" -> UnauthorizedError(p)
    [] kind = "MethodNotAllowedError" -> MethodNotAllowedError(p)

\* an error constructed and rendered
ERet(kind, p, error, json) ==
  [kind |-> kind, params |-> p, error |-> error, json |-> json]

NoERet == ERet("none", NoValue, NoValue, NoValue)

ErrorInit == eret = NoERet

\* new <kind>(p), then toJSON()
Construct ==
  \E kind \in ErrorKinds, p \in ErrorParams :
    /\ eret' = ERet(kind, p, New(kind, p), Public(New(kind, p)))
    /\ UNCHANGED <<svars, uvars, xvars, qvars, mvars, pret>>

ErrorNext == Construct

----------------------------------------------------------------------------
(* Credential hasher: password.hash and password.compare *)

\* a password one byte longer than bcrypt reads, ending in c
LongPassword(c) ==
  [i \in 1..(BcryptKeyBytes + 1) |-> IF i > BcryptKeyBytes THEN c ELSE "a"]

\* the passwords the callers hash and compare
PasswordInputs ==
  AuthPasswords \cup
  {LongPassword("b"), LongPassword("c"), [i \in 1..BcryptKeyBytes |-> "a"]}

\* the salts bcryptjs draws
PasswordSalts == {"salt1", "salt2", "salt3"}

\* a call of the password module: hash(password), or compare(provided,
\* stored) where stored is the hash of `password`
PRet(op, provided, password, stored, out) ==
  [op |-> op, provided |-> provided, password |-> password,
   stored |-> stored, out |-> out]

NoPRet == PRet("none", NoValue, NoValue, NoValue, NoValue)

PasswordInit == pret = NoPRet

\* password.hash(password)
PasswordHash ==
  \E password \in PasswordInputs, salt \in PasswordSalts :
    /\ pret' = PRet("hash", NoValue, password, NoValue, hash(password, salt))
    /\ UNCHANGED <<svars, uvars, xvars, qvars, mvars, eret>>

\* password.compare(providedPassword, storedPassword), the stored password
\* being what password.hash has made of `password`
PasswordCompare ==
  \E providedPassword \in PasswordInputs, password \in PasswordInputs,
     salt \in PasswordSalts :
    LET storedPassword == hash(password, salt)
    IN /\ pret' = PRet("compare", providedPassword, password, storedPassword,
                       compare(providedPassword, storedPassword))
       /\ UNCHANGED <<svars, uvars, xvars, qvars, mvars, eret>>

PasswordNext == PasswordHash \/ PasswordCompare


Init ==
  /\ SessionInit /\ UserInit /\ AuthInit /\ DatabaseInit /\ MigratorInit
  /\ ErrorInit /\ PasswordInit

SpecSession == Init /\ [][SessionNext]_vars

\* the user directory, one call at a time
SpecUser == Init /\ [][UserNext(Sequential)]_vars

\* the user directory, calls overlapping
SpecUserRace == Init /\ [][UserNext(Overlapping)]_vars

\* clients logging in while users sign up and change their email or password
SpecAuth == Init /\ [][AuthNext]_vars

\* overlapping database.query calls, the storage going out of reach at will
SpecDatabase == Init /\ [][DatabaseNext]_vars

\* migrator calls one after the other, migrations failing at will
SpecMigrator == Init /\ [][MigratorNext]_vars

\* the four services side by side
SpecCore == Init /\ [][CoreNext]_vars

\* the error classes, constructed and rendered
SpecErrors == Init /\ [][ErrorNext]_vars

\* the password module
SpecPassword == Init /\ [][PasswordNext]_vars

----------------------------------------------------------------------------
(* Session manager: properties *)

\* the rows a lookup of `token` may return now
ValidNow(token) ==
  {i \in DOMAIN sessions :
     sessions[i].token = token /\ now < sessions[i].expires_at}

\* the last operation was op, applied to an existing session
HitSession(r, op) == r.op = op /\ r.val # NoValue

\* C4: findOneValidByToken(token) returns a row exactly when a row with that
\* token and expires_at strictly after the clock exists, and then returns that
\* row; otherwise it fails with UnauthorizedError. A session returned by
\* session.create is found under its token whenever the clock is strictly
\* before its expires_at.
C4_LookupMatchesValidRow ==
  sret.op = "findOneValidByToken" =>
    /\ sret.ok <=> ValidNow(sret.arg) # {}
    /\ sret.ok => \E i \in ValidNow(sret.arg) : sret.val = sessions[i]
    /\ ~sret.ok => sret.err.name = "UnauthorizedError"
    /\ \A s \in issued :
         (s.token = sret.arg /\ now < sessions[s.id].expires_at)
           => (sret.ok /\ sret.val.id = s.id)

\* a lookup, at the very instant a session expires, of that session's token
C4_Witness ==
  /\ sret.op = "findOneValidByToken"
  /\ ~sret.ok
  /\ \E s \in issued :
       s.token = sret.arg /\ sessions[s.id].expires_at = now

\* C5: a failed lookup's error is the same in name, message, action and status
\* code as the error any other failing lookup gets at that moment, whether
\* the token was never issued, has run out by the clock, or was expired by
\* expireById.
C5_LookupFailuresAlike ==
  (sret.op = "findOneValidByToken" /\ ~sret.ok) =>
    \A token \in Tokens :
      \A o \in findOneValidByToken(sessions, token, now) :
        ~o.ok => Public(o.err) = Public(sret.err)

\* a failed lookup of a token expired by expireById, while another token has
\* run out by the clock and a third was never issued
C5_Witness ==
  /\ sret.op = "findOneValidByToken"
  /\ ~sret.ok
  /\ TokenCase(sret.arg) = "expireById"
  /\ \E token \in Tokens :
       TokenCase(token) = "clock" /\ ValidNow(token) = {}
  /\ \E token \in Tokens : TokenCase(token) = "never"

\* C6: a session that expireById has hit is never again returned by
\* findOneValidByToken.
C6_ExpiredIsTerminal ==
  (sret.op = "findOneValidByToken" /\ sret.ok) => sret.val.id \notin expired

\* C7: right after expireById the session's expires_at is strictly before the
\* clock and a lookup of its token fails with UnauthorizedError.
C7_ExpireByIdInvalidates ==
  HitSession(sret, "expireById") =>
    /\ sessions[sret.arg].expires_at < now
    /\ \A o \in findOneValidByToken(sessions, sessions[sret.arg].token, now) :
         ~o.ok /\ o.err.name = "UnauthorizedError"

\* expireById on a session whose expires_at was the latest it can be, the
\* clock plus the validity window
C7_Witness ==
  /\ HitSession(sret, "expireById")
  /\ \E year \in YearLengths :
       sret.val.expires_at + year = now + EXPIRATION_IN_SECONDS

C9_RenewFrame ==
  [][\A id \in SessionIds :
       (sret'.op = "renew" /\ sret'.arg = id) =>
         /\ DOMAIN sessions' = DOMAIN sessions
         /\ \A j \in DOMAIN sessions :
              IF j = id
              THEN /\ sessions'[j].expires_at = now + EXPIRATION_IN_SECONDS
                   /\ sessions'[j].id = sessions[j].id
                   /\ sessions'[j].token = sessions[j].token
                   /\ sessions'[j].user_id = sessions[j].user_id
                   /\ sessions'[j].created_at = sessions[j].created_at
              ELSE sessions'[j] = sessions[j]]_vars

\* a renewal while another session is stored whose expires_at differs
C9_Witness ==
  /\ HitSession(sret, "renew")
  /\ \E j \in DOMAIN sessions :
       j # sret.arg /\ sessions[j].expires_at # sret.val.expires_at

\* C10: expireById takes one year off the session's expires_at, keeps the row
\* with its id, token and user_id, and changes no other row.
C10_ExpireFrame ==
  [][\A id \in SessionIds :
       (sret'.op = "expireById" /\ sret'.arg = id) =>
         /\ DOMAIN sessions' = DOMAIN sessions
         /\ \A j \in DOMAIN sessions :
              IF j = id
              THEN /\ \E year \in YearLengths :
                        sessions'[j].expires_at = sessions[j].expires_at - year
                   /\ sessions'[j].id = sessions[j].id
                   /\ sessions'[j].token = sessions[j].token
                   /\ sessions'[j].user_id = sessions[j].user_id
              ELSE sessions'[j] = sessions[j]]_vars

\* an expireById while another session is stored and still valid
C10_Witness ==
  /\ HitSession(sret, "expireById")
  /\ \E j \in DOMAIN sessions :
       j # sret.arg /\ sessions[j].expires_at > now

\* C11: no session operation deletes a row: every step keeps every stored
\* session, at its place, with its id, its token and its user_id, so the set
\* of session ids only grows.
C11_RowsNeverDeleted ==
  [][\A i \in DOMAIN sessions :
       /\ i \in DOMAIN sessions'
       /\ sessions'[i].id = sessions[i].id
       /\ sessions'[i].token = sessions[i].token
       /\ sessions'[i].user_id = sessions[i].user_id]_vars

\* a session that expireById has hit and renew has then written is still
\* stored under the id and token session.create returned
C11_Witness ==
  /\ HitSession(sret, "renew")
  /\ sret.arg \in expired
  /\ \E s \in issued :
       s.id = sret.arg /\ sessions[s.id].id = s.id /\ sessions[s.id].token = s.token

----------------------------------------------------------------------------
(* User directory: properties *)

\* the rows other than the one the call that just ended has inserted
OtherRows(r) ==
  {i \in DOMAIN users : r.out.ok => users[i].id # r.out.val.id}

\* the call that just ended failed with an error named `name`
FailedWith(r, name) == ~r.out.ok /\ r.out.err.name = name

\* C1: whatever the interleaving of create and update calls, no two rows of
\* users have usernames that are equal without regard to case, and no two
\* have emails that are equal without regard to case.
C1_NoTwoUsersShare ==
  \A i, j \in DOMAIN users :
    i # j =>
      /\ LOWER(users[i].username) # LOWER(users[j].username)
      /\ LOWER(users[i].email) # LOWER(users[j].email)

\* two rows in the table, and a call that passed its checks while another
\* call was writing the value it checked, and was refused by the storage
C1_Witness ==
  /\ Len(users) = 2
  /\ uret.collided
  /\ \E i \in DOMAIN users :
       \/ LOWER(users[i].username) = LOWER(uret.input.username)
       \/ LOWER(users[i].email) = LOWER(uret.input.email)

\* C2: a create or update that passed its uniqueness checks and then collided
\* at the storage with a concurrent call's write fails with ValidationError,
\* never with ServiceError.
C2_CollisionIsValidationError ==
  uret.collided => FailedWith(uret, "ValidationError")

\* C3: once a create has succeeded with username u and email e, every later
\* create that does not overlap it, with a username equal to u or an email
\* equal to e without regard to case, fails with ValidationError.
C3_LaterCreateFails ==
  uret.op = "create" =>
    \A c \in created :
      ( /\ \E i \in OtherRows(uret) : users[i].id = c.id
        /\ \/ LOWER(c.username) = LOWER(uret.input.username)
           \/ LOWER(c.email) = LOWER(uret.input.email) )
        => FailedWith(uret, "ValidationError")

\* C3, for the values the created user still carries: once a create has
\* succeeded with username u and email e, a later create that does not overlap
\* it fails with ValidationError when its username equals u without regard to
\* case and the user's row still carries u, or its email equals e without
\* regard to case and the row still carries e.
C3_LaterCreateOfKeptValueFails ==
  uret.op = "create" =>
    \A c \in created :
      \A i \in OtherRows(uret) :
        ( /\ users[i].id = c.id
          /\ \/ /\ LOWER(c.username) = LOWER(uret.input.username)
                /\ LOWER(users[i].username) = LOWER(c.username)
             \/ /\ LOWER(c.email) = LOWER(uret.input.email)
                /\ LOWER(users[i].email) = LOWER(c.email) )
          => FailedWith(uret, "ValidationError")

\* a create refused for its username, which differs in case only from the
\* username an earlier create was given and its row still carries
C3_Witness ==
  /\ uret.op = "create"
  /\ FailedWith(uret, "ValidationError")
  /\ \E c \in created :
       \E i \in DOMAIN users :
         /\ users[i].id = c.id
         /\ users[i].username = c.username
         /\ c.username # uret.input.username
         /\ LOWER(c.username) = LOWER(uret.input.username)
         /\ LOWER(c.email) # LOWER(uret.input.email)

----------------------------------------------------------------------------
(* Authentication service: properties *)

\* the last step was a getAuthenticatedUser call
Authenticated(r) == r.op = "getAuthenticatedUser"

\* the rows whose email is `email` in some letter case
RowsOfEmail(email) ==
  {i \in DOMAIN users : LOWER(users[i].email) = LOWER(email)}

\* the messages findUserByEmail and validatePassword throw
InternalMessages == {"Email não confere.", "Senha não confere."}

\* C12: a login that fails for its email or its password fails with the
\* message and the action every other failing login gets at that moment,
\* whether its email matches no user or its password is wrong; the messages
\* thrown inside ("Email não confere.", "Senha não confere.") do not come out.
C12_LoginFailuresAlike ==
  (Authenticated(aret) /\ db = "up" /\ ~aret.out.ok) =>
    /\ aret.out.err.name = "UnauthorizedError"
    /\ aret.out.err.message \notin InternalMessages
    /\ \A email \in Emails, pw \in AuthPasswords :
         \A o \in getAuthenticatedUser(users, db, email, pw) :
           ~o.ok => /\ o.err.message = aret.out.err.message
                    /\ o.err.action = aret.out.err.action

\* a login refused for its password, while another email matches no user
C12_Witness ==
  /\ Authenticated(aret)
  /\ ~aret.out.ok
  /\ aret.found.ok
  /\ \E email \in Emails : RowsOfEmail(email) = {}

\* C13: when the user lookup of a login fails with an error that is not a
\* NotFoundError, the login fails with that very error.
C13_OtherErrorsPassThrough ==
  ( /\ Authenticated(aret)
    /\ ~aret.found.ok
    /\ aret.found.err.name # "NotFoundError" )
    => (~aret.out.ok /\ aret.out.err = aret.found.err)

\* a login while the storage is out of reach and the user exists
C13_Witness ==
  /\ Authenticated(aret)
  /\ ~aret.found.ok
  /\ aret.found.err.name = "ServiceError"
  /\ RowsOfEmail(aret.email) # {}

\* C14: with the storage in reach, a login returns a user exactly when a row
\* has the given email in some letter case and the given password matches
\* that row's hash, and it returns that row; otherwise it fails with
\* UnauthorizedError.
C14_LoginMatchesRow ==
  (Authenticated(aret) /\ db = "up") =>
    LET rows == {i \in RowsOfEmail(aret.email) :
                   compare(aret.password, users[i].password)}
    IN /\ aret.out.ok <=> rows # {}
       /\ aret.out.ok => \E i \in rows : aret.out.val = users[i]
       /\ ~aret.out.ok => aret.out.err.name = "UnauthorizedError"

\* a login with the email in another letter case than stored, after the
\* user has changed password
C14_Witness ==
  /\ Authenticated(aret)
  /\ aret.out.ok
  /\ aret.out.val.email # aret.email
  /\ aret.password \in NewPasswords

----------------------------------------------------------------------------
(* Data-access layer: properties *)

\* the callers that are in a database.query call
InFlight == {p \in QueryCallers : qcalls[p].pc # "idle"}

\* the last step ended a database.query call
Queried(r) == r.op = "query"

\* C15: the connections database.query has open are those of the calls in
\* flight, one new connection each, so that none is open when no call is in
\* flight; a call that ends, by return or by throw, has ended the connection
\* it had opened (a call whose connection failed has none), and the release
\* adds no error: the call throws only when the driver threw.
C15_ConnectionsReleased ==
  /\ open = {qcalls[p].client : p \in InFlight}
  /\ \A p, q \in InFlight : p # q => qcalls[p].client # qcalls[q].client
  /\ \A p \in InFlight : qcalls[p].client \in 1..opened
  /\ Queried(qret) =>
       /\ qret.client \notin open
       /\ qret.client = undefined <=> qret.thrown = "connection_refused"
       /\ qret.out.ok <=> qret.thrown = NoError

\* a call whose statement failed ends while another call is in flight
C15_Witness ==
  /\ Queried(qret)
  /\ qret.thrown \in {"syntax_error", "connection_terminated"}
  /\ qret.client # undefined
  /\ InFlight # {}

\* C16: every database.query call that fails, for its connection or for its
\* statement, throws a ServiceError whose cause is the error the driver threw.
C16_FailuresAreServiceErrors ==
  (Queried(qret) /\ ~qret.out.ok) =>
    /\ qret.out.err.name = "ServiceError"
    /\ qret.out.err.message = "Erro na conexão com Banco ou na Query."
    /\ qret.thrown # NoError
    /\ qret.out.err.cause = qret.thrown

\* a call whose connection could not be opened
C16_Witness ==
  /\ Queried(qret)
  /\ ~qret.out.ok
  /\ qret.thrown = "connection_refused"

----------------------------------------------------------------------------
(* Core boundary: properties *)

\* the four error kinds of infra/errors.js
Kinds ==
  {"ValidationError", "NotFoundError", "UnauthorizedError", "ServiceError"}

\* C17: every failure a public operation of the session manager, the user
\* directory, the authentication service or the migration runner raises is a
\* ValidationError, a NotFoundError, an UnauthorizedError or a ServiceError;
\* a storage-driver error, a uniqueness violation included, reaches the
\* caller only as the cause of a ServiceError.
C17_FailuresAreOfTheTaxonomy ==
  /\ (sret.op # "none" /\ ~sret.ok) => sret.err.name \in Kinds
  /\ (uret.op # "none" /\ ~uret.out.ok) => uret.out.err.name \in Kinds
  /\ (aret.op # "none" /\ ~aret.out.ok) => aret.out.err.name \in Kinds
  /\ (mret.op # "none" /\ ~mret.out.ok) => mret.out.err.name \in Kinds

\* a create or update collides at the storage layer's uniqueness constraint
\* and leaves with a ServiceError
C17_Witness ==
  /\ uret.op # "none"
  /\ uret.collided
  /\ FailedWith(uret, "ServiceError")

----------------------------------------------------------------------------
(* Migration runner: properties *)

\* the step belongs to a call of `op`: the call is running before or after
\* it, or the step ends it
StepOf(op) == mcall.op = op \/ mcall'.op = op \/ mret'.op = op

\* the migrations in ascending order of identifier up to the n-th
FirstMigrations(n) == [i \in 1..n |-> i]

\* C18: no step of listPendingMigrations changes the schema or the ledger,
\* so that the next listPendingMigrations resolves the same pending list; a
\* call that succeeds returns the migrations the ledger does not record.
C18_ListChangesNothing ==
  [][StepOf("listPendingMigrations") =>
       /\ ledger' = ledger
       /\ schema' = schema
       /\ migrationRunner_toRun(ledger') = migrationRunner_toRun(ledger)
       /\ (mret'.op = "listPendingMigrations" /\ mret'.out.ok) =>
            /\ mret'.out.val = migrationRunner_toRun(ledger')
            /\ mret'.before = [ledger |-> ledger', schema |-> schema']]_vars

\* a listPendingMigrations that follows another one, with migrations applied
\* and migrations pending, has returned the pending ones
C18_Witness ==
  /\ mret.op = "listPendingMigrations"
  /\ mret.prev.op = "listPendingMigrations"
  /\ mret.out.ok
  /\ mret.out.val # <<>>
  /\ ledger # <<>>

\* C19: the call that follows a successful runPendingMigrations applies
\* nothing, and when it succeeds it returns the empty list.
C19_SecondRunIsEmpty ==
  (mret.op # "none" /\ mret.prev.op = "runPendingMigrations" /\ mret.prev.ok)
    => /\ mret.applied = <<>>
       /\ ledger = mret.before.ledger
       /\ schema = mret.before.schema
       /\ mret.out.ok => mret.out.val = <<>>

\* a runPendingMigrations that has applied every migration is followed by a
\* runPendingMigrations that succeeds
C19_Witness ==
  /\ mret.op = "runPendingMigrations"
  /\ mret.prev.op = "runPendingMigrations"
  /\ mret.prev.ok
  /\ mret.out.ok
  /\ mret.before.ledger = FirstMigrations(MaxMigrations)

\* C20: runPendingMigrations applies the pending migrations in ascending
\* order and records each as it commits: the ledger holds the first
\* migrations in order and the schema has exactly their changes. A run starts
\* from the first migration the ledger does not record; when migration k
\* fails, the migrations the run applied before k stay applied and recorded,
\* k and the later ones are neither, and k is where the next run starts.
C20_RunAppliesInOrder ==
  /\ ledger = FirstMigrations(Len(ledger))
  /\ schema = Range(ledger)
  /\ mcall.op = "runPendingMigrations" =>
       /\ mcall.toRun = migrationRunner_toRun(mcall.before.ledger)
       /\ ledger = mcall.before.ledger \o mcall.done
       /\ mcall.failedAt = 0 => mcall.done \o mcall.todo = mcall.toRun
  /\ (mret.op = "runPendingMigrations" /\ mret.failedAt # 0) =>
       /\ ledger = mret.before.ledger \o mret.applied
       /\ \A m \in Migrations : m \in schema <=> m < mret.failedAt
       /\ Head(migrationRunner_toRun(ledger)) = mret.failedAt

\* a run applies the first migration and fails at the second
C20_Witness ==
  /\ mret.op = "runPendingMigrations"
  /\ mret.failedAt = 2
  /\ mret.applied = <<1>>
  /\ ledger = <<1>>

\* C21: a listPendingMigrations or runPendingMigrations that fails, at
\* getNewClient or in the runner, throws a ServiceError with the operation's
\* message whose cause is the error that was thrown; a call in which nothing
\* was thrown succeeds.
C21_MigratorFailuresCarryCause ==
  mret.op # "none" =>
    /\ mret.out.ok <=> mret.thrown = NoError
    /\ ~mret.out.ok =>
         /\ mret.out.err.name = "ServiceError"
         /\ mret.out.err.message = messageOf(mret.op)
         /\ mret.out.err.cause = mret.thrown

\* a run whose second migration fails in the runner
C21_Witness ==
  /\ mret.op = "runPendingMigrations"
  /\ mret.thrown = "migration_failed"
  /\ mret.applied # <<>>
  /\ ~mret.out.ok

----------------------------------------------------------------------------
(* Error taxonomy: properties *)

\* the status code of each kind
StatusCodeOf ==
  [ValidationError |-> 400, UnauthorizedError |-> 401, NotFoundError |-> 404,
   MethodNotAllowedError |-> 405, ServiceError |-> 503,
   InternalServerError |-> 500]

\* the constructor was given a status code
GivenStatusCode(p) == "statusCode" \in DOMAIN p /\ p.statusCode # 0

\* C22: an error of any kind carries its kind's name, a message and an
\* action that are not empty, and the status code of its kind (an
\* InternalServerError the one it was given, 500 when it was given none);
\* toJSON renders name, message, action and status_code and nothing else,
\* the cause never.
C22_ErrorShape ==
  eret.kind # "none" =>
    /\ eret.error.name = eret.kind
    /\ eret.error.message # ""
    /\ eret.error.action # ""
    /\ eret.error.statusCode =
         IF eret.kind = "InternalServerError" /\ GivenStatusCode(eret.params)
         THEN eret.params.statusCode
         ELSE StatusCodeOf[eret.kind]
    /\ DOMAIN eret.json = {"name", "message", "action", "status_code"}
    /\ eret.json.name = eret.error.name
    /\ eret.json.message = eret.error.message
    /\ eret.json.action = eret.error.action
    /\ eret.json.status_code = eret.error.statusCode

\* a ServiceError constructed with a cause, a message and a status code it
\* ignores, and rendered
C22_Witness ==
  /\ eret.kind = "ServiceError"
  /\ DOMAIN eret.params = {"cause", "message", "statusCode"}
  /\ eret.params.statusCode = 502
  /\ eret.error.cause = "driver_error"
  /\ eret.error.statusCode = 503

----------------------------------------------------------------------------
(* Credential hasher: properties *)

\* C26: password.compare(p, password.hash(q)) is true when p is q and false
\* when p differs from q.
C26_CompareMatchesEquality ==
  pret.op = "compare" => (pret.out <=> pret.provided = pret.password)

\* password.compare(p, password.hash(p)) is true, passwords longer than
\* bcrypt's key included
C26_CompareAcceptsOwnHash ==
  (pret.op = "compare" /\ pret.provided = pret.password) => pret.out

----------------------------------------------------------------------------
(* User directory: the lookups *)

\* findOneById returning undefined when no row has the id
findOneById_undefined(rows, id) ==
  LET found == {i \in DOMAIN rows : rows[i].id = id}
  IN IF found = {} THEN {Ok(NoValue)} ELSE {Ok(rows[i]) : i \in found}

\* user.findOneById(id): WHERE id = $1 LIMIT 1
findOneById(rows, id) ==
  LET found == {i \in DOMAIN rows : rows[i].id = id}
  IN IF found = {}
     THEN {Fail(NotFoundError(
             [message |-> "O id informado não foi encontrado no sistema.",
              action |-> "Verifique se o id está digitado corretamente."]))}
     ELSE {Ok(rows[i]) : i \in found}

\* the three lookups and the keys their callers submit
LookupOps == {"findOneById", "findOneByUsername", "findOneByEmail"}

LookupKeys(op) ==
  CASE op = "findOneById" -> 1..3
    [] op = "findOneByUsername" -> Usernames
    [] op = "findOneByEmail" -> Emails

\* what the lookup `op` of `key` returns or throws, the storage in reach
lookup(op, rows, key) ==
  CASE op = "findOneById" -> findOneById(rows, key)
    [] op = "findOneByUsername" -> findOneByUsername(rows, key)
    [] op = "findOneByEmail" -> findOneByEmail(rows, "up", key)

\* the users the callers create, rename and give another email while others
\* look users up: usernames and emails are stored with capitals
Listed ==
  [callers |-> {1},
   creates |-> {c \in CreateInputs :
                  /\ c.username \in {<<"A", "b">>, <<"c", "d">>}
                  /\ c.email \in {<<"X", "@", "y">>, <<"z", "@", "y">>}},
   usernames |-> {<<"a", "b">>},
   updates |-> {[username |-> <<"c", "d">>], [email |-> <<"z", "@", "y">>]}]

\* findOneById(id), findOneByUsername(username), findOneByEmail(email): one
\* database.query, and the NotFoundError when it returned no row
UserLookup ==
  \E op \in LookupOps :
    \E key \in LookupKeys(op) :
      \E out \in IF db = "down" THEN {Fail(queryCatch("connection_refused"))}
                 ELSE lookup(op, users, key) :
        /\ uret' = URet([Idle EXCEPT !.op = op, !.input = key], out, FALSE)
        /\ UNCHANGED <<users, calls, created, supplied>>

LookupNext ==
  \/ UserLookup /\ UserOnly
  \/ UserNext(Listed)
  \/ Outage

\* the user directory with its lookups
SpecLookup == Init /\ [][LookupNext]_vars

----------------------------------------------------------------------------
(* User directory: properties of the lookups *)

\* the rows the lookup that just ended was to find
Matching(r, rows) ==
  {i \in DOMAIN rows :
     CASE r.op = "findOneById" -> rows[i].id = r.input
       [] r.op = "findOneByUsername" ->
            LOWER(rows[i].username) = LOWER(r.input)
       [] r.op = "findOneByEmail" -> LOWER(rows[i].email) = LOWER(r.input)}

C24_LookupFailsWhenNoRow ==
  [][uret'.op \in LookupOps =>
       /\ users' = users
       /\ db' = "up" =>
            /\ FailedWith(uret', "NotFoundError")
                 <=> Matching(uret', users') = {}
            /\ uret'.out.ok <=> Matching(uret', users') # {}
            /\ uret'.out.ok =>
                 \E i \in Matching(uret', users') :
                   uret'.out.val = users'[i]]_vars

\* findOneById misses while the table has rows
C24_Witness ==
  /\ uret.op = "findOneById"
  /\ FailedWith(uret, "NotFoundError")
  /\ uret.out.err.message = "O id informado não foi encontrado no sistema."
  /\ users # <<>>
  /\ db = "up"

----------------------------------------------------------------------------
(* User directory: the stored password *)

\* C25: after any sequence of create and update calls the password stored
\* for a user is a bcrypt hash, differs from the password supplied for that
\* user last, and password.compare accepts that password against it; the row
\* a create returns has created_at equal to updated_at.
C25_StoredPasswordIsHash ==
  /\ DOMAIN supplied = DOMAIN users
  /\ \A i \in DOMAIN users :
       /\ users[i].password # supplied[i]
       /\ users[i].password[1] = "$2a$"
       /\ compare(supplied[i], users[i].password)
  /\ (uret.op = "create" /\ uret.out.ok) =>
       /\ uret.out.val.created_at = uret.out.val.updated_at
       /\ uret.out.val.password # uret.input.password

\* an update has replaced the password a user was created with
C25_Witness ==
  /\ uret.op = "update"
  /\ uret.out.ok
  /\ "password" \in DOMAIN uret.input
  /\ uret.input.password \notin Passwords
  /\ supplied[uret.out.val.id] = uret.input.password
  /\ compare(uret.input.password, users[uret.out.val.id].password)

----------------------------------------------------------------------------
(* User directory: the frame of update *)

\* C28: a successful user.update leaves the fields among username, email
\* and password that its payload does not name at the value stored when it
\* writes, keeps the row's id and created_at, and returns the row as it is
\* stored.
C28_UpdateKeepsAbsentFields ==
  [][(uret'.op = "update" /\ uret'.out.ok) =>
       LET id == uret'.out.val.id
       IN /\ id \in DOMAIN users
          /\ \A k \in {"username", "email", "password"} \ DOMAIN uret'.input :
               users'[id][k] = users[id][k]
          /\ users'[id].id = users[id].id
          /\ users'[id].created_at = users[id].created_at
          /\ uret'.out.val = users'[id]]_vars

----------------------------------------------------------------------------
(* Session manager: properties of create *)

\* C27: a session.create(userId) that succeeds appends one row and returns
\* it: its user_id is userId, its token is 96 hexadecimal characters, its
\* expires_at is the clock at the call plus 30 days; the rows stored before
\* are as they were.
C27_CreateStoresNewSession ==
  [][(sret'.op = "create" /\ sret'.ok) =>
       LET text == toString_hex(TokenBytes(sret'.val.token))
       IN /\ Len(sessions') = Len(sessions) + 1
          /\ \A i \in DOMAIN sessions : sessions'[i] = sessions[i]
          /\ sret'.val = sessions'[Len(sessions')]
          /\ sret'.val.user_id = sret'.arg
          /\ sret'.val.expires_at = now + EXPIRATION_IN_SECONDS
          /\ Len(text) = 96
          /\ \A i \in DOMAIN text :
               \E d \in DOMAIN HexDigits : text[i] = HexDigits[d]]_vars

\* a second session is created for the owner of the first, after the clock
\* has moved
C27_Witness ==
  /\ sret.op = "create"
  /\ sret.ok
  /\ sret.val.id = 2
  /\ sret.val.user_id = sessions[1].user_id
  /\ sret.val.expires_at > sessions[1].expires_at

\* C29: no two rows of the sessions table have the same token, whatever
\* tokens session.create has drawn.
C29_TokensAreUnique ==
  \A i, j \in DOMAIN sessions :
    sessions[i].token = sessions[j].token => i = j

\* a session.create has drawn a token that is stored already and the table
\* has refused it
C29_Witness ==
  /\ sret.op = "create"
  /\ ~sret.ok
  /\ sret.err.cause = "unique_violation"
  /\ sessions # <<>>

----------------------------------------------------------------------------
(* Session manager: the sliding window *)

MaxSlides == 2

\* the clock advances by one second less than the validity window, or by
\* the whole window
SlideSteps == {EXPIRATION_IN_SECONDS - 1, EXPIRATION_IN_SECONDS}

\* time passes between two uses of a session
Slide ==
  \E d \in SlideSteps :
    /\ ticks < MaxSlides
    /\ now' = now + d
    /\ ticks' = ticks + 1
    /\ sret' = NoSRet
    /\ UNCHANGED <<sessions, expired, expires, issued>>

SlidingNext ==
  \/ SessionCreate /\ SessionOnly
  \/ SessionFind /\ SessionOnly
  \/ SessionRenew /\ SessionOnly
  \/ SessionExpire /\ SessionOnly
  \/ Slide /\ SessionOnly

\* the session manager over several validity windows
SpecSliding == Init /\ [][SlidingNext]_vars

\* C30: a session that expireById has never hit and that was created or
\* last renewed less than the validity window ago is matched by
\* findOneValidByToken: renewed before each expiry, it stays valid, however
\* long ago it was created.
C30_RenewedSessionStaysValid ==
  \A i \in DOMAIN sessions :
    (i \notin expired /\ now < sessions[i].updated_at + EXPIRATION_IN_SECONDS)
      => /\ now < sessions[i].expires_at
         /\ \A o \in findOneValidByToken(sessions, sessions[i].token, now) :
              o.ok /\ o.val = sessions[i]

\* a session renewed in time is found more than a validity window after its
\* creation
C30_Witness ==
  /\ sret.op = "findOneValidByToken"
  /\ sret.ok
  /\ sret.val.id \notin expired
  /\ now > sret.val.created_at + EXPIRATION_IN_SECONDS
  /\ sret.val.updated_at > sret.val.created_at

----------------------------------------------------------------------------
(* User directory: the uniqueness checks of update *)

\* the payload names a username some stored user carries, or an email some
\* stored user carries, both without regard to case
Taken(rows, userInputValues) ==
  \/ /\ "username" \in DOMAIN userInputValues
     /\ \E i \in DOMAIN rows :
          LOWER(rows[i].username) = LOWER(userInputValues.username)
  \/ /\ "email" \in DOMAIN userInputValues
     /\ \E i \in DOMAIN rows :
          LOWER(rows[i].email) = LOWER(userInputValues.email)

\* the username the update was called with names a stored user
Names(rows, username) ==
  \E i \in DOMAIN rows : LOWER(rows[i].username) = LOWER(username)

\* C31: a user.update(username, partialFields) on a stored user fails with
\* ValidationError exactly when partialFields has a username key whose value
\* equals without regard to case the username of some stored user, or an
\* email key whose value equals without regard to case the email of some
\* stored user, the user's own username and email included; a payload with
\* neither key does not fail validation.
C31_UpdateValidatesPresentFields ==
  [][(uret'.op = "update" /\ Names(users, uret'.username)) =>
       (FailedWith(uret', "ValidationError") <=> Taken(users, uret'.input))]_vars

\* an update of the only stored user refused because its payload carries
\* that user's own email in another letter case
C31_Witness ==
  /\ uret.op = "update"
  /\ Names(users, uret.username)
  /\ Len(users) = 1
  /\ FailedWith(uret, "ValidationError")
  /\ DOMAIN uret.input = {"email"}
  /\ uret.input.email # users[1].email
  /\ LOWER(uret.input.email) = LOWER(users[1].email)

----------------------------------------------------------------------------
(* User directory: payloads with keys other than username, email, password *)

\* what one caller submits whose update payloads may carry an id: two users
\* to create, and updates of the first that name the id of a stored row, of
\* no row, or no id, with a username and an email no user carries
Unrestricted ==
  [callers |-> {1},
   creates |-> {[username |-> <<"a", "b">>, email |-> <<"x", "@", "y">>,
                 password |-> <<"p", "w">>],
                [username |-> <<"c", "d">>, email |-> <<"z", "@", "y">>,
                 password |-> <<"p", "w">>]},
   usernames |-> {<<"a", "b">>},
   updates |-> {[id |-> 2], [id |-> 3],
                [id |-> 2, password |-> <<"p", "w">>],
                [id |-> 2, username |-> <<"e", "f">>,
                 email |-> <<"w", "@", "y">>],
                [username |-> <<"e", "f">>],
                [email |-> <<"w", "@", "y">>]}]

\* the user directory, one call at a time, update payloads carrying an id
SpecUserPayload == Init /\ [][UserNext(Unrestricted)]_vars

\* C32: a user.update(username, partialFields) modifies no row of users other
\* than the row of the user username names, whatever the payload, payloads
\* with keys outside username, email and password, such as id, included.
C32_UpdateTouchesOnlyNamedRow ==
  [][uret'.op = "update" =>
       \A i \in DOMAIN users :
         LOWER(users[i].username) # LOWER(uret'.username) =>
           users'[i] = users[i]]_vars

----------------------------------------------------------------------------
(* User directory: overlapping updates of one user *)

\* C33: when two user.update calls on one user whose payloads name different
\* fields overlap, the row stored after both have completed carries the new
\* values of both: the call that writes last does not write back the value it
\* read of a field the other call has changed. (Two updates that complete in
\* consecutive steps overlap: a call takes two steps at least.)
C33_OverlappingUpdatesBothKept ==
  [][( /\ uret.op = "update" /\ uret.out.ok
       /\ uret'.op = "update" /\ uret'.out.ok
       /\ uret'.out.val.id = uret.out.val.id
       /\ DOMAIN uret.input \cap DOMAIN uret'.input = {}
       /\ DOMAIN uret.input \cup DOMAIN uret'.input
            \subseteq {"username", "email"} ) =>
       LET row == users'[uret'.out.val.id]
       IN /\ \A k \in DOMAIN uret.input : row[k] = uret.input[k]
          /\ \A k \in DOMAIN uret'.input : row[k] = uret'.input[k]]_vars

----------------------------------------------------------------------------
(* Session manager: expiry by the clock *)

\* the stored sessions neither renew nor expireById has changed: both set
\* updated_at to the clock, and a renew at the very instant of the creation
\* leaves the row as create stored it
Untouched ==
  {i \in DOMAIN sessions :
     i \notin expired /\ sessions[i].updated_at = sessions[i].created_at}

\* C34: a session neither renew nor expireById has been called on expires 30
\* days after its creation: findOneValidByToken matches it while the clock is
\* before its expires_at, and no longer from the instant the clock reaches
\* expires_at on, with no operation performed on the row.
C34_UntouchedSessionRunsOut ==
  /\ \A i \in Untouched :
       /\ sessions[i].expires_at =
            sessions[i].created_at + EXPIRATION_IN_SECONDS
       /\ \A o \in findOneValidByToken(sessions, sessions[i].token, now) :
            o.ok <=> now < sessions[i].expires_at
  /\ ( /\ sret.op = "findOneValidByToken"
       /\ \E i \in Untouched :
            sessions[i].token = sret.arg /\ now >= sessions[i].expires_at )
       => ~sret.ok /\ sret.err.name = "UnauthorizedError"

\* a lookup of the token of a session nothing was done to since its
\* creation, long after it ran out: the clock reached its expires_at and
\* then went on for nearly another validity window
C34_Witness ==
  /\ sret.op = "findOneValidByToken"
  /\ ~sret.ok
  /\ \E i \in Untouched :
       /\ sessions[i].token = sret.arg
       /\ now > sessions[i].expires_at
       /\ now - sessions[i].created_at >= 2 * EXPIRATION_IN_SECONDS - 1

----------------------------------------------------------------------------
(* User directory: calls that fail validation *)

\* C35: a user.create or user.update that fails with ValidationError leaves
\* the users table as it was before the call: the step that throws writes
\* nothing, and neither does any step that ends no call, the steps of that
\* call before it among them.
C35_FailedValidationWritesNothing ==
  [][/\ ( /\ uret'.op \in {"create", "update"}
          /\ FailedWith(uret', "ValidationError") ) => users' = users
     /\ uret' = NoURet => users' = users]_vars

\* an update refused for its email after its new username had passed the
\* username check
C35_Witness ==
  /\ uret.op = "update"
  /\ FailedWith(uret, "ValidationError")
  /\ uret.out.err.message = "O email informado já está sendo utilizado."
  /\ "username" \in DOMAIN uret.input
  /\ \E i \in DOMAIN users :
       /\ LOWER(users[i].username) = LOWER(uret.username)
       /\ users[i].username # uret.input.username

----------------------------------------------------------------------------
(* User directory: update of a user that is not stored *)

\* C36: a user.update(username, partialFields) whose username names no stored
\* user, case set aside, fails with NotFoundError in its first step, the
\* lookup: it goes on to no uniqueness check and to no write, and leaves the
\* users table and the record of what was created as they were.
C36_UpdateOfUnknownUserFails ==
  [][/\ (uret'.op = "update" /\ ~Names(users, uret'.username)) =>
          /\ FailedWith(uret', "NotFoundError")
          /\ \A p \in Callers : Free(p)
          /\ UNCHANGED <<users, created, supplied>>
     /\ \A p \in Callers :
          (Free(p) /\ calls'[p].op = "update") =>
            Names(users, calls'[p].username)]_vars

\* an update of a user that is not stored, with a username some other user
\* carries: the lookup fails before the uniqueness check could
C36_Witness ==
  /\ uret.op = "update"
  /\ FailedWith(uret, "NotFoundError")
  /\ ~Names(users, uret.username)
  /\ Taken(users, uret.input)
  /\ "username" \in DOMAIN uret.input

----------------------------------------------------------------------------
(* User directory: the order of the checks of create *)

\* the email is carried by some stored user, case set aside
EmailTaken(rows, email) ==
  \E i \in DOMAIN rows : LOWER(rows[i].email) = LOWER(email)

\* C37: user.create checks the username before the email: a create whose
\* username is in use fails with the ValidationError of the username, whether
\* or not its email is in use too, and one whose email alone is in use with
\* the ValidationError of the email; a call reaches the email check only
\* from a username check that passed, and the hashing and the insert only
\* from an email check that passed.
C37_CreateChecksUsernameFirst ==
  [][/\ (uret'.op = "create" /\ Names(users, uret'.input.username)) =>
          /\ FailedWith(uret', "ValidationError")
          /\ uret'.out.err.message =
               "O username informado já está sendo utilizado."
     /\ ( /\ uret'.op = "create"
          /\ ~Names(users, uret'.input.username)
          /\ EmailTaken(users, uret'.input.email) ) =>
          /\ FailedWith(uret', "ValidationError")
          /\ uret'.out.err.message =
               "O email informado já está sendo utilizado."
     /\ \A p \in Callers :
          /\ ( /\ calls'[p].pc = "create_validateUniqueEmail"
               /\ calls[p].pc # "create_validateUniqueEmail" ) =>
               /\ Free(p)
               /\ ~Names(users, calls'[p].input.username)
          /\ ( /\ calls'[p].pc = "create_runInsertQuery"
               /\ calls[p].pc # "create_runInsertQuery" ) =>
               /\ calls[p].pc = "create_validateUniqueEmail"
               /\ ~EmailTaken(users, calls[p].input.email)
               /\ calls'[p].input.password \in Passwords]_vars

\* a create whose username and email are both in use, refused for the
\* username
C37_Witness ==
  /\ uret.op = "create"
  /\ Names(users, uret.input.username)
  /\ EmailTaken(users, uret.input.email)
  /\ FailedWith(uret, "ValidationError")
  /\ uret.out.err.message = "O username informado já está sendo utilizado."

----------------------------------------------------------------------------
(* Session manager: renew and expireById of an id that is not stored *)

\* C38: renew(sessionId) and expireById(sessionId) with an id no row of
\* sessions carries raise no error, return undefined and leave every row of
\* sessions as it was.
C38_UnknownIdChangesNothing ==
  [][( /\ sret'.op \in {"renew", "expireById"}
       /\ \A i \in DOMAIN sessions : sessions[i].id # sret'.arg ) =>
       /\ sret'.ok
       /\ sret'.err = NoValue
       /\ sret'.val = NoValue
       /\ sessions' = sessions]_vars

\* a renew of an id that is not stored, while another session is
C38_Witness ==
  /\ sret.op = "renew"
  /\ sret.ok
  /\ sret.val = NoValue
  /\ sessions # <<>>
  /\ \A i \in DOMAIN sessions : sessions[i].id # sret.arg

----------------------------------------------------------------------------
(* Migration runner: the connection of a call *)

\* C39: listPendingMigrations and runPendingMigrations end the connection
\* they acquired on every way out, the runner having succeeded or failed: the
\* connection is open while the call runs and ended once it is over. When
\* getNewClient itself fails there is no connection to end, the finally
\* block releases nothing, and the call still throws the ServiceError of its
\* catch block, not a TypeError.
C39_MigratorEndsItsConnection ==
  /\ mcall.pc = "idle" => MigratorClient \notin open
  /\ mcall.pc # "idle" =>
       mcall.dbClient = MigratorClient /\ MigratorClient \in open
  /\ mret.op # "none" =>
       /\ mret.dbClient \notin open
       /\ mret.dbClient = undefined <=> mret.thrown = "connection_refused"
       /\ mret.dbClient = undefined =>
            /\ ~mret.out.ok
            /\ mret.out.err.name = "ServiceError"
            /\ mret.out.err.message = messageOf(mret.op)
            /\ mret.out.err.cause = "connection_refused"

\* a listPendingMigrations that could not acquire its connection, after a
\* run whose runner failed had ended its own
C39_Witness ==
  /\ mret.op = "listPendingMigrations"
  /\ mret.dbClient = undefined
  /\ ~mret.out.ok
  /\ mret.prev = [op |-> "runPendingMigrations", ok |-> FALSE]
  /\ ledger # <<>>
  /\ open = {}

----------------------------------------------------------------------------
(* Session manager: the bound of expires_at *)

\* C40: after every step each row of sessions has an expires_at of at most
\* the clock plus 30 days, and the expires_at of a row stored before the step
\* differs from what it was only when the step is a renew or an expireById
\* called with the id of that row.
C40_ExpiresAtBoundedAndFramed ==
  [][/\ \A i \in DOMAIN sessions' :
          sessions'[i].expires_at <= now' + EXPIRATION_IN_SECONDS
     /\ \A i \in DOMAIN sessions :
          /\ i \in DOMAIN sessions'
          /\ sessions'[i].expires_at # sessions[i].expires_at =>
               /\ sret'.op \in {"renew", "expireById"}
               /\ sret'.arg = sessions[i].id]_vars

\* a renew, after the clock has moved, that puts its session at the bound
\* while another session, created before, stays below it
C40_Witness ==
  /\ HitSession(sret, "renew")
  /\ now > 0
  /\ sessions[sret.arg].expires_at = now + EXPIRATION_IN_SECONDS
  /\ \E j \in DOMAIN sessions :
       /\ j # sret.arg
       /\ j \notin expired
       /\ sessions[j].expires_at < now + EXPIRATION_IN_SECONDS

=============================================================================
